---- MODULE Spec2Model ----
(***************************************************************************)
(* Model of the quickjs-go C bridge (bridge.c / bridge.h): the execution   *)
(* controller (interrupt handler and wall-clock timeout), the class        *)
(* builder (CreateClass and the member binding passes), the instance       *)
(* factory (CreateClassInstance), the module loader (LoadModuleBytecode),  *)
(* the trampolines and the opaque handle codec.                            *)
(***************************************************************************)
EXTENDS Integers, Naturals, Sequences, FiniteSets, TLC

(***************************************************************************)
(* Bounds of the execution-controller model.                               *)
(***************************************************************************)
MaxTokens == 2
MaxTime == 3
MaxDuration == 2
MaxPolls == 3

(***************************************************************************)
(* Bounds of the class-builder model: entries handed to one CreateClass    *)
(* call, and CreateClass calls made in a row.                              *)
(***************************************************************************)
MaxEntries == 2
MaxCalls == 3

(***************************************************************************)
(* Bound of the instance-factory model: entries of instance_properties.    *)
(***************************************************************************)
MaxInstanceProperties == 2

(***************************************************************************)
(* Bound of the trampoline model: arguments of one call.                   *)
(***************************************************************************)
MaxArgs == 2

(***************************************************************************)
(* Bound of the codec model: how far from the corner values of int32_t the *)
(* handle ids converted reach.                                             *)
(***************************************************************************)
IdSpread == 3

VARIABLES
    interrupt_handler,  \* callback registered by JS_SetInterruptHandler
    interrupt_opaque,   \* opaque registered with it
    tsHeap,             \* every TimeoutStruct malloc'ed so far
    now,                \* time(NULL)
    pollCount,          \* number of interrupt polls made so far
    lastPoll,           \* what the latest poll consulted and returned
    lastInstalled,      \* mechanism of the latest Set.../Clear... call
    clearedFrom,        \* callback that the latest Clear... call removed
    js_class_id_alloc,  \* next class id handed out by JS_NewClassID
    class_array,        \* class ids registered with JS_NewClass
    class_proto,        \* JS_SetClassProto: class id -> prototype object
    objs,               \* engine objects allocated so far, with ref counts
    current_exception,  \* kind of the pending exception of the context
    lastCall,           \* inputs and result of the latest CreateClass call
    created,            \* class ids returned by successful CreateClass calls
    lastInstance,       \* inputs and result of the latest CreateClassInstance call
    lastLoad,           \* inputs and result of the latest LoadModuleBytecode call
    lastProxy,          \* the latest trampoline call and the host calls it made
    lastCodec,          \* the latest conversions of two handle ids
    lastBind            \* the latest direct CreateCFunction / Bind...ToObject call

timerVars == <<interrupt_handler, interrupt_opaque, tsHeap, now, pollCount,
               lastPoll, lastInstalled, clearedFrom>>

classVars == <<js_class_id_alloc, class_array, class_proto, objs,
               current_exception, lastCall, created>>

bridgeVars == <<lastInstance, lastLoad, lastProxy, lastCodec, lastBind>>

vars == <<timerVars, classVars, bridgeVars>>

Durations == -1 .. MaxDuration
Times == 0 .. MaxTime

\* lastPoll before the first poll; afterwards it records the callback the
\* poll called, its opaque, the value returned, the host predicate's answer,
\* the state of the TimeoutStruct read (live, expired, armed with a duration
\* <= 0) and the values lastInstalled and clearedFrom had at the poll.
NoPoll == [handler |-> "nopoll", opaque |-> "NULL", ret |-> 0, answer |-> 0,
           live |-> FALSE, expired |-> FALSE, disabled |-> FALSE,
           installed |-> "NULL", clearedFrom |-> "never"]

TimerInit ==
    /\ interrupt_handler = "NULL"
    /\ interrupt_opaque = "NULL"
    /\ tsHeap = <<>>
    /\ now = 0
    /\ pollCount = 0
    /\ lastPoll = NoPoll
    /\ lastInstalled = "NULL"
    /\ clearedFrom = "never"

(***************************************************************************)
(* SetInterruptHandler: registers interruptHandler with rt as opaque.      *)
(***************************************************************************)
SetInterruptHandler_KeepsTimeout ==
    /\ interrupt_handler' = IF interrupt_handler = "timeoutHandler"
                            THEN interrupt_handler ELSE "interruptHandler"
    /\ interrupt_opaque' = IF interrupt_handler = "timeoutHandler"
                           THEN interrupt_opaque ELSE "rt"
    /\ lastInstalled' = "interruptHandler"
    /\ clearedFrom' = "never"
    /\ UNCHANGED <<tsHeap, now, pollCount, lastPoll, classVars, bridgeVars>>

SetInterruptHandler ==
    /\ interrupt_handler' = "interruptHandler"
    /\ interrupt_opaque' = "rt"
    /\ lastInstalled' = "interruptHandler"
    /\ clearedFrom' = "never"
    /\ UNCHANGED <<tsHeap, now, pollCount, lastPoll, classVars, bridgeVars>>

(***************************************************************************)
(* ClearInterruptHandler: registers (NULL, NULL).                          *)
(***************************************************************************)
ClearInterruptHandler_KeepsCallback ==
    /\ interrupt_handler' = interrupt_handler
    /\ interrupt_opaque' = interrupt_opaque
    /\ lastInstalled' = "NULL"
    /\ clearedFrom' = interrupt_handler
    /\ UNCHANGED <<tsHeap, now, pollCount, lastPoll, classVars, bridgeVars>>

ClearInterruptHandler ==
    /\ interrupt_handler' = "NULL"
    /\ interrupt_opaque' = "NULL"
    /\ lastInstalled' = "NULL"
    /\ clearedFrom' = interrupt_handler
    /\ UNCHANGED <<tsHeap, now, pollCount, lastPoll, classVars, bridgeVars>>

(***************************************************************************)
(* SetExecuteTimeout: mallocs a TimeoutStruct, stamps it with the current  *)
(* time and the duration, registers timeoutHandler with it as opaque.      *)
(* Nothing is done with the opaque registered before.                      *)
(***************************************************************************)
\* frees counts the calls of free() on the struct and aborts the polls that
\* returned 1 through it; the two fields of the C struct are start, timeout.
NewTimeoutStruct(timeout) ==
    [start |-> now, timeout |-> timeout, frees |-> 0, aborts |-> 0]

SetExecuteTimeout(timeout) ==
    /\ Len(tsHeap) < MaxTokens
    /\ tsHeap' = Append(tsHeap, NewTimeoutStruct(timeout))
    /\ interrupt_handler' = "timeoutHandler"
    /\ interrupt_opaque' = Len(tsHeap) + 1
    /\ lastInstalled' = "timeoutHandler"
    /\ clearedFrom' = "never"
    /\ UNCHANGED <<now, pollCount, lastPoll, classVars, bridgeVars>>

(***************************************************************************)
(* timeoutHandler, as a function of the two fields it reads from the       *)
(* TimeoutStruct and of the clock: the value returned and whether free(ts) *)
(* is called.                                                              *)
(***************************************************************************)
timeoutHandler(timeout, start, t) ==
    IF timeout <= 0 THEN [ret |-> 0, free |-> TRUE]
    ELSE IF t - start > timeout THEN [ret |-> 1, free |-> TRUE]
    ELSE [ret |-> 0, free |-> FALSE]

(***************************************************************************)
(* The fields read through a TimeoutStruct pointer.  A struct that was     *)
(* already freed is read after free: the values are whatever the allocator *)
(* left or put there.                                                      *)
(***************************************************************************)
ReadTimeout(ts) ==
    IF tsHeap[ts].frees = 0 THEN {tsHeap[ts].timeout} ELSE Durations

ReadStart(ts) ==
    IF tsHeap[ts].frees = 0 THEN {tsHeap[ts].start} ELSE Times

(***************************************************************************)
(* An interrupt poll of the engine while timeoutHandler is registered.     *)
(***************************************************************************)
PollTimeout ==
    /\ interrupt_handler = "timeoutHandler"
    /\ pollCount < MaxPolls
    /\ LET ts == interrupt_opaque IN
       \E timeout \in ReadTimeout(ts), start \in ReadStart(ts) :
          LET r == timeoutHandler(timeout, start, now) IN
          /\ tsHeap' = [tsHeap EXCEPT
                          ![ts].frees = IF r.free THEN @ + 1 ELSE @,
                          ![ts].aborts = @ + r.ret]
          /\ lastPoll' = [handler |-> "timeoutHandler", opaque |-> ts,
                          ret |-> r.ret, answer |-> 0,
                          live |-> tsHeap[ts].frees = 0,
                          expired |-> now - tsHeap[ts].start > tsHeap[ts].timeout,
                          disabled |-> tsHeap[ts].timeout <= 0,
                          installed |-> lastInstalled,
                          clearedFrom |-> clearedFrom]
    /\ pollCount' = pollCount + 1
    /\ UNCHANGED <<interrupt_handler, interrupt_opaque, now, lastInstalled,
                   clearedFrom, classVars, bridgeVars>>

(***************************************************************************)
(* interruptHandler: returns the answer of the host predicate              *)
(* (goInterruptHandler), looked up by the runtime passed as opaque.        *)
(***************************************************************************)
interruptHandler(answer) == answer

PollInterrupt ==
    /\ interrupt_handler = "interruptHandler"
    /\ pollCount < MaxPolls
    /\ \E answer \in {0, 1} :
          lastPoll' = [handler |-> "interruptHandler", opaque |-> interrupt_opaque,
                       ret |-> interruptHandler(answer), answer |-> answer,
                       live |-> FALSE, expired |-> FALSE, disabled |-> FALSE,
                       installed |-> lastInstalled, clearedFrom |-> clearedFrom]
    /\ pollCount' = pollCount + 1
    /\ UNCHANGED <<interrupt_handler, interrupt_opaque, tsHeap, now,
                   lastInstalled, clearedFrom, classVars, bridgeVars>>

(***************************************************************************)
(* An interrupt poll while no callback is registered: execution continues. *)
(***************************************************************************)
PollNone ==
    /\ interrupt_handler = "NULL"
    /\ pollCount < MaxPolls
    /\ lastPoll' = [NoPoll EXCEPT !.handler = "NULL", !.ret = 0,
                                  !.installed = lastInstalled,
                                  !.clearedFrom = clearedFrom]
    /\ pollCount' = pollCount + 1
    /\ UNCHANGED <<interrupt_handler, interrupt_opaque, tsHeap, now,
                   lastInstalled, clearedFrom, classVars, bridgeVars>>

(***************************************************************************)
(* The wall clock advances.                                                *)
(***************************************************************************)
Tick ==
    /\ now < MaxTime
    /\ now' = now + 1
    /\ UNCHANGED <<interrupt_handler, interrupt_opaque, tsHeap, pollCount,
                   lastPoll, lastInstalled, clearedFrom, classVars, bridgeVars>>

TimerNext ==
    \/ SetInterruptHandler
    \/ ClearInterruptHandler
    \/ \E timeout \in Durations : SetExecuteTimeout(timeout)
    \/ PollTimeout
    \/ PollInterrupt
    \/ PollNone
    \/ Tick

(***************************************************************************)
(* Execution controller: properties.                                       *)
(***************************************************************************)
LiveTokens == {t \in DOMAIN tsHeap : tsHeap[t].frees = 0}

\* C1: every TimeoutStruct allocated by SetExecuteTimeout is freed at most
\* once: no poll calls free() on a struct that an earlier poll already freed.
C1_TokenFreedAtMostOnce ==
    \A t \in DOMAIN tsHeap : tsHeap[t].frees <= 1

\* C2: after any sequence of SetExecuteTimeout calls at most one allocated,
\* unfreed TimeoutStruct exists, and the registered one was stamped with a
\* start time that is not in the future.
C2_AtMostOneLiveToken ==
    /\ Cardinality(LiveTokens) <= 1
    /\ \A t \in DOMAIN tsHeap : tsHeap[t].start <= now

\* C3: for a TimeoutStruct armed with a duration > 0, a poll returns abort
\* exactly when the elapsed time strictly exceeds the duration, it does so
\* at most once per struct, and that poll releases the struct.
C3_AbortExactlyOncePerToken ==
    /\ \A t \in DOMAIN tsHeap :
          tsHeap[t].timeout > 0 =>
             /\ tsHeap[t].aborts <= 1
             /\ (tsHeap[t].aborts >= 1 => tsHeap[t].frees >= 1)
    /\ (lastPoll.handler = "timeoutHandler" /\ lastPoll.live /\ ~lastPoll.disabled)
          => (lastPoll.ret = 1 <=> lastPoll.expired)

\* C4: every poll made through a TimeoutStruct armed with a duration <= 0
\* returns continue, the first one and every later one, and the struct has
\* been released once such a poll was made.
C4_DisabledTimeoutNeverAborts ==
    (lastPoll.handler = "timeoutHandler" /\ lastPoll.disabled)
       => /\ lastPoll.ret = 0
          /\ tsHeap[lastPoll.opaque].frees >= 1

\* C5: every poll made after ClearInterruptHandler and before the next
\* SetInterruptHandler or SetExecuteTimeout returns continue, whatever
\* callback the clear removed.
C5_ClearedPollsContinue ==
    lastPoll.clearedFrom # "never" => lastPoll.ret = 0

C5_Witness ==
    /\ lastPoll.clearedFrom \in {"interruptHandler", "timeoutHandler"}
    /\ lastPoll.handler = "NULL"
    /\ lastPoll.ret = 0

\* C6: the registered callback is always the one of the most recent
\* SetInterruptHandler / SetExecuteTimeout / ClearInterruptHandler call, and
\* a poll consults that mechanism only: with the predicate installed it
\* returns the predicate's answer even though an earlier deadline expired,
\* with a timeout installed it returns the deadline's verdict.
C6_OnlyLatestMechanismConsulted ==
    /\ interrupt_handler = lastInstalled
    /\ lastPoll.handler # "nopoll" => lastPoll.handler = lastPoll.installed
    /\ lastPoll.handler = "interruptHandler" => lastPoll.ret = lastPoll.answer
    /\ (lastPoll.handler = "timeoutHandler" /\ lastPoll.live)
          => lastPoll.ret = (IF ~lastPoll.disabled /\ lastPoll.expired THEN 1 ELSE 0)

C6_Witness ==
    /\ lastPoll.handler = "interruptHandler"
    /\ lastPoll.ret = 0
    /\ interrupt_handler = "interruptHandler"
    /\ \E t \in LiveTokens :
          tsHeap[t].timeout > 0 /\ now - tsHeap[t].start > tsHeap[t].timeout

(***************************************************************************)
(* CLASS BUILDER.                                                          *)
(*                                                                         *)
(* Engine values.  A JSValue is a tag and a payload: for an object the     *)
(* payload is the index of the object in objs.                             *)
(***************************************************************************)
JS_UNDEFINED == [tag |-> "undefined", v |-> 0]
JS_EXCEPTION == [tag |-> "exception", v |-> 0]
JS_MKOBJ(i) == [tag |-> "object", v |-> i]
JS_NewInt32(n) == [tag |-> "int", v |-> n]
JS_IsException(val) == val.tag = "exception"
JS_IsUndefined(val) == val.tag = "undefined"

\* Property attribute flags, as sets of W(ritable), E(numerable), C(onfigurable).
GetPropertyWritableConfigurable == {"W", "C"}
GetPropertyConfigurable == {"C"}
GetPropertyDefault == {"W", "E", "C"}
GetPropertyNone == {}

\* JSCFunctionEnum values used by the bridge.
GetCFuncGenericMagic == "generic_magic"
GetCFuncConstructorMagic == "constructor_magic"
GetCFuncGetterMagic == "getter_magic"
GetCFuncSetterMagic == "setter_magic"
GetCFuncGeneric == "generic"
GetCFuncConstructor == "constructor"

\* Limit of the class id space: 1 << 16.
MaxClassId == 65536

(***************************************************************************)
(* The engine state threaded through one bridge call:                      *)
(*   objs, alloc, classes, protos, exc  the class-builder variables        *)
(*   n, failAt   engine calls that can fail made so far, and which one of  *)
(*               them fails in this call (0: none)                         *)
(*   log         the member binds performed, in order                      *)
(***************************************************************************)
Fails(e) == e.n + 1 = e.failAt
Called(e) == [e EXCEPT !.n = @ + 1]
Throw(e, kind) == [e EXCEPT !.exc = kind]

NewObjectRecord(class, proxy, cproto, magic, length, name) ==
    [class |-> class, rc |-> 1, props |-> <<>>, proxy |-> proxy,
     cproto |-> cproto, magic |-> magic, length |-> length, name |-> name,
     proto |-> 0, class_id |-> 0, opaque |-> 0]

DataProperty(val, flags) ==
    [kind |-> "data", flags |-> flags, value |-> val,
     getter |-> JS_UNDEFINED, setter |-> JS_UNDEFINED]

GetSetProperty(getter, setter, flags) ==
    [kind |-> "getset", flags |-> flags, value |-> JS_UNDEFINED,
     getter |-> getter, setter |-> setter]

\* The object references a value / a property / a property table holds.
ValRefs(val) == IF val.tag = "object" THEN <<val.v>> ELSE <<>>
PropRefs(p) == ValRefs(p.value) \o ValRefs(p.getter) \o ValRefs(p.setter)

RECURSIVE HeldRefs(_, _)
HeldRefs(props, names) ==
    IF names = {} THEN <<>>
    ELSE LET nm == CHOOSE x \in names : TRUE
         IN PropRefs(props[nm]) \o HeldRefs(props, names \ {nm})

\* The reference an object holds to its prototype (0: none).
ProtoRef(o) == IF o.proto # 0 THEN <<o.proto>> ELSE <<>>

\* Dropping one reference to object i: the last reference destroys the
\* object and drops the references its properties and its prototype link
\* hold.  A count that is already 0 goes negative: the object is released
\* more often than referenced.
RECURSIVE Release(_, _)
RECURSIVE ReleaseAll(_, _)
Release(os, i) ==
    IF os[i].rc = 1
    THEN ReleaseAll([os EXCEPT ![i].rc = 0, ![i].props = <<>>, ![i].proto = 0],
                    HeldRefs(os[i].props, DOMAIN os[i].props) \o ProtoRef(os[i]))
    ELSE [os EXCEPT ![i].rc = @ - 1]

ReleaseAll(os, refs) ==
    IF refs = <<>> THEN os
    ELSE ReleaseAll(Release(os, Head(refs)), Tail(refs))

JS_FreeValue(e, val) ==
    IF val.tag = "object" THEN [e EXCEPT !.objs = Release(@, val.v)] ELSE e

JS_DupValue(e, val) ==
    IF val.tag = "object" THEN [e EXCEPT !.objs[val.v].rc = @ + 1] ELSE e

\* JS_NewClassID(pclass_id): allocates a fresh id when the slot holds 0 and
\* returns the slot's id otherwise.
JS_NewClassID(e, slot) ==
    IF slot = 0
    THEN [e |-> [e EXCEPT !.alloc = @ + 1], id |-> e.alloc]
    ELSE [e |-> e, id |-> slot]

\* JS_NewClass(rt, class_id, class_def): -1 when the id is outside the id
\* space, already registered, or the registry cannot grow.
JS_NewClass(e, class_id) ==
    IF Fails(e) \/ class_id >= MaxClassId \/ class_id \in e.classes
    THEN [e |-> Called(e), ret |-> -1]
    ELSE [e |-> [Called(e) EXCEPT !.classes = @ \cup {class_id}], ret |-> 0]

\* JS_NewObject / JS_NewCFunction2: a new object with one reference, owned
\* by the caller, or an exception.
AllocObject(e, rec) ==
    IF Fails(e)
    THEN [e |-> Throw(Called(e), "OutOfMemory"), ret |-> JS_EXCEPTION]
    ELSE [e |-> [Called(e) EXCEPT !.objs = Append(@, rec)],
          ret |-> JS_MKOBJ(Len(e.objs) + 1)]

JS_NewObject(e) ==
    AllocObject(e, NewObjectRecord("object", "none", "none", 0, 0, ""))

JS_NewCFunction2(e, proxy, name, length, cproto, magic) ==
    AllocObject(e, NewObjectRecord("cfunction", proxy, cproto, magic, length, name))

\* [[DefineOwnProperty]] of an ordinary, extensible object with a fully
\* specified descriptor: whether the definition is accepted.
DefineAccepted(props, name, new) ==
    IF name \notin DOMAIN props THEN TRUE
    ELSE LET old == props[name] IN
         IF "C" \in old.flags THEN TRUE
         ELSE /\ "C" \notin new.flags
              /\ ("E" \in new.flags) = ("E" \in old.flags)
              /\ new.kind = old.kind
              /\ IF old.kind = "data"
                 THEN \/ "W" \in old.flags
                      \/ ("W" \notin new.flags /\ new.value = old.value)
                 ELSE new.getter = old.getter /\ new.setter = old.setter

\* JS_DefineProperty without JS_PROP_THROW: -1 with an exception pending on
\* an engine failure, 0 (FALSE) when the definition is rejected, 1 when the
\* property was defined.  A defined property holds its own references to the
\* values; the ones of the property it replaces are dropped.
OldRefs(props, name) ==
    IF name \in DOMAIN props THEN PropRefs(props[name]) ELSE <<>>

PutProperty(props, name, new) ==
    [nm \in DOMAIN props \cup {name} |-> IF nm = name THEN new ELSE props[nm]]

DupHeld(e, new) ==
    JS_DupValue(JS_DupValue(JS_DupValue(e, new.value), new.getter), new.setter)

StoreProperty(e, obj, name, new) ==
    [e EXCEPT !.objs =
        ReleaseAll([@ EXCEPT ![obj.v].props = PutProperty(@, name, new)],
                   OldRefs(e.objs[obj.v].props, name))]

JS_DefineProperty(e, obj, name, new) ==
    IF Fails(e)
    THEN [e |-> Throw(Called(e), "OutOfMemory"), ret |-> -1]
    ELSE IF ~DefineAccepted(e.objs[obj.v].props, name, new)
    THEN [e |-> Called(e), ret |-> 0]
    ELSE [e |-> StoreProperty(DupHeld(Called(e), new), obj, name, new), ret |-> 1]

\* JS_DefinePropertyValueStr: defines a data property and takes ownership of
\* val, whatever the outcome.
ValueConsumed(d, val) == [e |-> JS_FreeValue(d.e, val), ret |-> d.ret]

JS_DefinePropertyValueStr(e, obj, name, val, flags) ==
    ValueConsumed(JS_DefineProperty(e, obj, name, DataProperty(val, flags)), val)

\* JS_DefinePropertyGetSet: defines an accessor property and takes ownership
\* of getter and setter, whatever the outcome.
GetSetConsumed(d, getter, setter) ==
    [e |-> JS_FreeValue(JS_FreeValue(d.e, getter), setter), ret |-> d.ret]

JS_DefinePropertyGetSet(e, obj, name, getter, setter, flags) ==
    GetSetConsumed(JS_DefineProperty(e, obj, name,
                                     GetSetProperty(getter, setter, flags)),
                   getter, setter)

\* JS_SetConstructor: func_obj.prototype = proto (no attribute set) and
\* proto.constructor = func_obj (writable, configurable); the outcome of the
\* two definitions is not reported.
SetConstructorOfProto(d1, func_obj, proto) ==
    JS_DefinePropertyValueStr(JS_DupValue(d1.e, func_obj), proto, "constructor",
                              func_obj, GetPropertyWritableConfigurable).e

JS_SetConstructor(e, func_obj, proto) ==
    SetConstructorOfProto(
        JS_DefinePropertyValueStr(JS_DupValue(e, proto), func_obj, "prototype",
                                  proto, GetPropertyNone),
        func_obj, proto)

\* JS_SetClassProto: the class's prototype slot takes ownership of obj and
\* drops the prototype it held before.
ProtoSlotSet(e, class_id, obj) ==
    [e EXCEPT !.protos = [c \in DOMAIN @ \cup {class_id} |->
                             IF c = class_id THEN obj.v ELSE @[c]]]

JS_SetClassProto(e, class_id, obj) ==
    IF class_id \in DOMAIN e.protos
    THEN ProtoSlotSet(JS_FreeValue(e, JS_MKOBJ(e.protos[class_id])), class_id, obj)
    ELSE ProtoSlotSet(e, class_id, obj)

(***************************************************************************)
(* CreateCFunction: the trampoline is selected by the function type; any   *)
(* other type is a TypeError.                                              *)
(***************************************************************************)
CreateCFunction_GetterAsMethod(e, name, length, func_type, handler_id) ==
    IF func_type = GetCFuncConstructorMagic
    THEN JS_NewCFunction2(e, "GoClassConstructorProxy", name, length,
                          func_type, handler_id)
    ELSE IF func_type = GetCFuncGenericMagic \/ func_type = GetCFuncGetterMagic
    THEN JS_NewCFunction2(e, "GoClassMethodProxy", name, length,
                          func_type, handler_id)
    ELSE IF func_type = GetCFuncSetterMagic
    THEN JS_NewCFunction2(e, "GoClassSetterProxy", name, length,
                          func_type, handler_id)
    ELSE [e |-> Throw(e, "TypeError"), ret |-> JS_EXCEPTION]

CreateCFunction(e, name, length, func_type, handler_id) ==
    IF func_type = GetCFuncConstructorMagic
    THEN JS_NewCFunction2(e, "GoClassConstructorProxy", name, length,
                          func_type, handler_id)
    ELSE IF func_type = GetCFuncGenericMagic
    THEN JS_NewCFunction2(e, "GoClassMethodProxy", name, length,
                          func_type, handler_id)
    ELSE IF func_type = GetCFuncGetterMagic
    THEN JS_NewCFunction2(e, "GoClassGetterProxy", name, length,
                          func_type, handler_id)
    ELSE IF func_type = GetCFuncSetterMagic
    THEN JS_NewCFunction2(e, "GoClassSetterProxy", name, length,
                          func_type, handler_id)
    ELSE [e |-> Throw(e, "TypeError"), ret |-> JS_EXCEPTION]

(***************************************************************************)
(* BindMethodToObject: create the method function, define it on obj; a     *)
(* failed definition frees the function and throws InternalError.          *)
(***************************************************************************)
BindMethodDefined(d, method_func) ==
    IF d.ret < 0
    THEN [e |-> Throw(JS_FreeValue(d.e, method_func), "InternalError"),
          ret |-> JS_EXCEPTION]
    ELSE [e |-> d.e, ret |-> JS_UNDEFINED]

BindMethodCreated(f, obj, method) ==
    IF JS_IsException(f.ret) THEN f
    ELSE BindMethodDefined(
             JS_DefinePropertyValueStr(f.e, obj, method.name, f.ret,
                                       GetPropertyWritableConfigurable),
             f.ret)

BindMethodToObject(e, obj, method) ==
    BindMethodCreated(CreateCFunction(e, method.name, method.length,
                                      GetCFuncGenericMagic, method.handler_id),
                      obj, method)

(***************************************************************************)
(* BindAccessorToObject: create the getter when getter_id # 0, the setter  *)
(* when setter_id # 0, define the accessor on obj.  The name atom carries  *)
(* no object reference.                                                    *)
(***************************************************************************)
FreeIfDefined(e, val) ==
    IF ~JS_IsUndefined(val) THEN JS_FreeValue(e, val) ELSE e

BindAccessorDefined(d, getter, setter) ==
    IF d.ret < 0
    THEN [e |-> Throw(FreeIfDefined(FreeIfDefined(d.e, getter), setter),
                      "InternalError"),
          ret |-> JS_EXCEPTION]
    ELSE [e |-> d.e, ret |-> JS_UNDEFINED]

BindAccessorSetter(st, getter, obj, accessor) ==
    IF JS_IsException(st.ret)
    THEN [e |-> FreeIfDefined(st.e, getter), ret |-> st.ret]
    ELSE BindAccessorDefined(
             JS_DefinePropertyGetSet(st.e, obj, accessor.name, getter, st.ret,
                                     GetPropertyConfigurable),
             getter, st.ret)

BindAccessorGetter(g, obj, accessor) ==
    IF JS_IsException(g.ret) THEN g
    ELSE IF accessor.setter_id # 0
    THEN BindAccessorSetter(CreateCFunction(g.e, accessor.name, 1,
                                            GetCFuncSetterMagic,
                                            accessor.setter_id),
                            g.ret, obj, accessor)
    ELSE BindAccessorSetter([e |-> g.e, ret |-> JS_UNDEFINED], g.ret, obj,
                            accessor)

BindAccessorToObject_AlwaysGetter(e, obj, accessor) ==
    BindAccessorGetter(CreateCFunction(e, accessor.name, 0, GetCFuncGetterMagic,
                                       accessor.getter_id),
                       obj, accessor)

BindAccessorToObject(e, obj, accessor) ==
    IF accessor.getter_id # 0
    THEN BindAccessorGetter(CreateCFunction(e, accessor.name, 0,
                                            GetCFuncGetterMagic,
                                            accessor.getter_id),
                            obj, accessor)
    ELSE BindAccessorGetter([e |-> e, ret |-> JS_UNDEFINED], obj, accessor)

(***************************************************************************)
(* BindPropertyToObject: duplicate the value, define it on obj; a failed   *)
(* definition frees the duplicate and throws InternalError.                *)
(***************************************************************************)
BindPropertyDefined(d, property_value) ==
    IF d.ret < 0
    THEN [e |-> Throw(JS_FreeValue(d.e, property_value), "InternalError"),
          ret |-> JS_EXCEPTION]
    ELSE [e |-> d.e, ret |-> JS_UNDEFINED]

BindPropertyToObject(e, obj, property) ==
    BindPropertyDefined(
        JS_DefinePropertyValueStr(JS_DupValue(e, property.value), obj,
                                  property.name, property.value, property.flags),
        property.value)

(***************************************************************************)
(* BindMembersToObject: the three loops, each from entry i on.  An entry   *)
(* is bound when its is_static equals the requested is_static; the first   *)
(* exception ends the pass.  log records which entry was bound to which    *)
(* object.                                                                 *)
(***************************************************************************)
Logged(e, obj, kind, i) ==
    [e EXCEPT !.log = Append(@, [obj |-> obj.v, kind |-> kind, idx |-> i])]

SelectsEntry_IgnoresFlag(entry, is_static) == TRUE

SelectsEntry(entry, is_static) == entry.is_static = is_static

RECURSIVE BindPropertiesFrom(_, _, _, _, _)
RECURSIVE BindPropertiesNext(_, _, _, _, _)
BindPropertiesFrom(e, obj, properties, i, is_static) ==
    IF i > Len(properties) THEN [e |-> e, ret |-> JS_UNDEFINED]
    ELSE IF SelectsEntry(properties[i], is_static)
    THEN BindPropertiesNext(
             BindPropertyToObject(Logged(e, obj, "property", i), obj, properties[i]),
             obj, properties, i, is_static)
    ELSE BindPropertiesFrom(e, obj, properties, i + 1, is_static)

BindPropertiesNext(property_result, obj, properties, i, is_static) ==
    IF JS_IsException(property_result.ret) THEN property_result
    ELSE BindPropertiesFrom(property_result.e, obj, properties, i + 1, is_static)

RECURSIVE BindAccessorsFrom(_, _, _, _, _)
RECURSIVE BindAccessorsNext(_, _, _, _, _)
BindAccessorsFrom(e, obj, accessors, i, is_static) ==
    IF i > Len(accessors) THEN [e |-> e, ret |-> JS_UNDEFINED]
    ELSE IF SelectsEntry(accessors[i], is_static)
    THEN BindAccessorsNext(
             BindAccessorToObject(Logged(e, obj, "accessor", i), obj, accessors[i]),
             obj, accessors, i, is_static)
    ELSE BindAccessorsFrom(e, obj, accessors, i + 1, is_static)

BindAccessorsNext(accessor_result, obj, accessors, i, is_static) ==
    IF JS_IsException(accessor_result.ret) THEN accessor_result
    ELSE BindAccessorsFrom(accessor_result.e, obj, accessors, i + 1, is_static)

RECURSIVE BindMethodsFrom(_, _, _, _, _)
RECURSIVE BindMethodsNext(_, _, _, _, _)
BindMethodsFrom(e, obj, methods, i, is_static) ==
    IF i > Len(methods) THEN [e |-> e, ret |-> JS_UNDEFINED]
    ELSE IF SelectsEntry(methods[i], is_static)
    THEN BindMethodsNext(
             BindMethodToObject(Logged(e, obj, "method", i), obj, methods[i]),
             obj, methods, i, is_static)
    ELSE BindMethodsFrom(e, obj, methods, i + 1, is_static)

BindMethodsNext(method_result, obj, methods, i, is_static) ==
    IF JS_IsException(method_result.ret) THEN method_result
    ELSE BindMethodsFrom(method_result.e, obj, methods, i + 1, is_static)

BindMembersAccessorsDone(a, obj, properties, is_static) ==
    IF JS_IsException(a.ret) THEN a
    ELSE BindPropertiesFrom(a.e, obj, properties, 1, is_static)

BindMembersMethodsDone(m, obj, accessors, properties, is_static) ==
    IF JS_IsException(m.ret) THEN m
    ELSE BindMembersAccessorsDone(
             BindAccessorsFrom(m.e, obj, accessors, 1, is_static),
             obj, properties, is_static)

BindMembersToObject_AccessorsFirst(e, obj, methods, accessors, properties, is_static) ==
    IF JS_IsException(BindAccessorsFrom(e, obj, accessors, 1, is_static).ret)
    THEN BindAccessorsFrom(e, obj, accessors, 1, is_static)
    ELSE BindMembersAccessorsDone(
             BindMethodsFrom(BindAccessorsFrom(e, obj, accessors, 1, is_static).e,
                             obj, methods, 1, is_static),
             obj, properties, is_static)

BindMembersToObject(e, obj, methods, accessors, properties, is_static) ==
    BindMembersMethodsDone(BindMethodsFrom(e, obj, methods, 1, is_static),
                           obj, accessors, properties, is_static)

(***************************************************************************)
(* CreateClass.  class_def is NULL or a record with class_name, which is   *)
(* NULL or a string; slot is the value the caller's *class_id holds on     *)
(* entry; in is the tuple of constructor_id and the three member lists.    *)
(* The result carries the value returned, the value left in *class_id, and *)
(* the prototype and constructor created (0: not created).  The steps are  *)
(* the numbered steps of the function, each taking the outcome of the one  *)
(* before.                                                                 *)
(***************************************************************************)
NULL == "NULL"

NullClassDef == [isNull |-> TRUE, class_name |-> NULL]
ClassDef(class_name) == [isNull |-> FALSE, class_name |-> class_name]

ClassIdExceedsLimit_OffByOne(class_id) == class_id > MaxClassId

ClassIdExceedsLimit(class_id) == class_id >= MaxClassId

ClassRegistrationFailed_Ignored(class_result) == FALSE

ClassRegistrationFailed(class_result) == class_result # 0

ClassResult(e, ret, class_id, proto, constructor) ==
    [e |-> e, ret |-> ret, class_id |-> class_id, proto |-> proto,
     constructor |-> constructor]

\* Step 9: outcome of binding the static members to the constructor.
CreateClassStaticBound(constructor_result, class_id, proto, constructor) ==
    IF JS_IsException(constructor_result.ret)
    THEN ClassResult(JS_FreeValue(constructor_result.e, constructor),
                     constructor_result.ret, class_id, proto.v, constructor.v)
    ELSE ClassResult(constructor_result.e, constructor, class_id, proto.v,
                     constructor.v)

\* Steps 6-9: outcome of creating the constructor function.
CreateClassConstructorCreated(constructor, class_id, proto, in) ==
    IF JS_IsException(constructor.ret)
    THEN ClassResult(JS_FreeValue(constructor.e, proto), constructor.ret,
                     class_id, proto.v, 0)
    ELSE CreateClassStaticBound(
             BindMembersToObject(
                 JS_SetClassProto(
                     JS_SetConstructor(constructor.e, constructor.ret, proto),
                     class_id, proto),
                 constructor.ret, in[2], in[3], in[4], 1),
             class_id, proto, constructor.ret)

\* Steps 5-6: outcome of binding the instance members to the prototype.
CreateClassProtoBound(proto_result, class_id, proto, class_def, in) ==
    IF JS_IsException(proto_result.ret)
    THEN ClassResult(JS_FreeValue(proto_result.e, proto), proto_result.ret,
                     class_id, proto.v, 0)
    ELSE CreateClassConstructorCreated(
             CreateCFunction(proto_result.e, class_def.class_name, 2,
                             GetCFuncConstructorMagic, in[1]),
             class_id, proto, in)

\* Steps 4-5: outcome of creating the prototype object.
CreateClassProtoCreated(proto, class_id, class_def, in) ==
    IF JS_IsException(proto.ret)
    THEN ClassResult(proto.e, proto.ret, class_id, 0, 0)
    ELSE CreateClassProtoBound(
             BindMembersToObject(proto.e, proto.ret, in[2], in[3], in[4], 0),
             class_id, proto.ret, class_def, in)

\* Steps 3-4: outcome of registering the class.
CreateClassRegistered(nc, class_id, class_def, in) ==
    IF ClassRegistrationFailed(nc.ret)
    THEN ClassResult(Throw(nc.e, "InternalError"), JS_EXCEPTION, class_id, 0, 0)
    ELSE CreateClassProtoCreated(JS_NewObject(nc.e), class_id, class_def, in)

\* Steps 2-3: outcome of allocating the class id.
CreateClassIdAllocated(id, class_def, in) ==
    IF ClassIdExceedsLimit(id.id)
    THEN ClassResult(Throw(id.e, "RangeError"), JS_EXCEPTION, id.id, 0, 0)
    ELSE CreateClassRegistered(JS_NewClass(id.e, id.id), id.id, class_def, in)

CreateClass_AllocatesFirst(e, slot, class_def, constructor_id, methods, accessors, properties) ==
    IF class_def.isNull \/ class_def.class_name = NULL
    THEN ClassResult(Throw(JS_NewClassID(e, slot).e, "InternalError"),
                     JS_EXCEPTION, JS_NewClassID(e, slot).id, 0, 0)
    ELSE IF Len(class_def.class_name) = 0
    THEN ClassResult(Throw(JS_NewClassID(e, slot).e, "InternalError"),
                     JS_EXCEPTION, JS_NewClassID(e, slot).id, 0, 0)
    ELSE CreateClassIdAllocated(JS_NewClassID(e, slot), class_def,
                                <<constructor_id, methods, accessors, properties>>)

CreateClass(e, slot, class_def, constructor_id, methods, accessors, properties) ==
    IF class_def.isNull \/ class_def.class_name = NULL
    THEN ClassResult(Throw(e, "InternalError"), JS_EXCEPTION, slot, 0, 0)
    ELSE IF Len(class_def.class_name) = 0
    THEN ClassResult(Throw(e, "InternalError"), JS_EXCEPTION, slot, 0, 0)
    ELSE CreateClassIdAllocated(JS_NewClassID(e, slot), class_def,
                                <<constructor_id, methods, accessors, properties>>)

(***************************************************************************)
(* The CreateClass call as a step of the host: the engine state before,    *)
(* the call, the engine state after, and a record of the call.             *)
(***************************************************************************)
EngineState(failAt) ==
    [objs |-> objs, alloc |-> js_class_id_alloc, classes |-> class_array,
     protos |-> class_proto, exc |-> current_exception, n |-> 0,
     failAt |-> failAt, log |-> <<>>]

\* Engine calls that can fail, in a run of the call in which none does.
FallibleCalls(slot, class_def, constructor_id, methods, accessors, properties) ==
    CreateClass(EngineState(0), slot, class_def, constructor_id, methods,
                accessors, properties).e.n

\* The calls of the other bridge functions: none made yet.
NoInstance ==
    [count |-> 0, constructor |-> JS_UNDEFINED, class_id |-> 0,
     instance_properties |-> <<>>, instance_property_count |-> 0,
     failAt |-> 0, ret |-> JS_UNDEFINED, exc |-> "none", log |-> <<>>,
     before |-> <<>>]

NoLoad ==
    [count |-> 0, buf |-> [kind |-> "corrupt"], load_only |-> 0, failAt |-> 0,
     ret |-> JS_UNDEFINED, exc |-> "none", log |-> <<>>, before |-> <<>>]

NoProxy ==
    [count |-> 0, proxy |-> "none", args |-> <<>>, answer |-> JS_UNDEFINED,
     calls |-> <<>>, ret |-> JS_UNDEFINED]

NoCodec ==
    [count |-> 0, limbs |-> 0, id |-> 0, opaque |-> <<>>, back |-> 0,
     other |-> 0, otherOpaque |-> <<>>]

NoBind ==
    [count |-> 0, op |-> "none", entry |-> [name |-> ""], failAt |-> 0,
     ret |-> JS_UNDEFINED, exc |-> "none", before |-> <<>>]

BridgeInit ==
    /\ lastInstance = NoInstance
    /\ lastLoad = NoLoad
    /\ lastProxy = NoProxy
    /\ lastCodec = NoCodec
    /\ lastBind = NoBind

NoCall ==
    [count |-> 0, slot |-> 0, class_def |-> NullClassDef, methods |-> <<>>,
     accessors |-> <<>>, properties |-> <<>>, failAt |-> 0,
     ret |-> JS_UNDEFINED, class_id |-> 0, proto |-> 0, constructor |-> 0,
     exc |-> "none", log |-> <<>>,
     before |-> [classes |-> {}, protos |-> <<>>, alloc |-> 0, nobjs |-> 0]]

CreateClassReturned(r, slot, class_def, methods, accessors, properties, failAt) ==
    /\ objs' = r.e.objs
    /\ js_class_id_alloc' = r.e.alloc
    /\ class_array' = r.e.classes
    /\ class_proto' = r.e.protos
    /\ current_exception' = r.e.exc
    /\ created' = IF JS_IsException(r.ret) THEN created
                  ELSE Append(created, r.class_id)
    /\ lastCall' =
         [count |-> lastCall.count + 1, slot |-> slot,
          class_def |-> class_def, methods |-> methods,
          accessors |-> accessors, properties |-> properties,
          failAt |-> failAt, ret |-> r.ret, class_id |-> r.class_id,
          proto |-> r.proto, constructor |-> r.constructor,
          exc |-> r.e.exc, log |-> r.e.log,
          before |-> [classes |-> class_array, protos |-> class_proto,
                      alloc |-> js_class_id_alloc, nobjs |-> Len(objs)]]
    /\ UNCHANGED <<timerVars, bridgeVars>>

CreateClassCall(slot, class_def, constructor_id, methods, accessors, properties, failAt) ==
    CreateClassReturned(
        CreateClass(EngineState(failAt), slot, class_def, constructor_id,
                    methods, accessors, properties),
        slot, class_def, methods, accessors, properties, failAt)

(***************************************************************************)
(* Inputs.                                                                 *)
(***************************************************************************)
Names == {"x", "y"}
StaticFlags == {0, 1, 2}

MethodEntries ==
    [name : Names, handler_id : {11}, length : {0}, is_static : StaticFlags]

AccessorEntries ==
    [name : Names, getter_id : {0, 21}, setter_id : {0, 22},
     is_static : StaticFlags]

PropertyEntries ==
    [name : Names, value : {JS_NewInt32(0)}, is_static : StaticFlags,
     flags : {GetPropertyNone, GetPropertyDefault}]

ClassDefs == {NullClassDef, ClassDef(NULL), ClassDef(""), ClassDef("Point")}

SeqsOfLen(S, n) == [1 .. n -> S]

MemberLists ==
    UNION { SeqsOfLen(MethodEntries, l[1]) \X SeqsOfLen(AccessorEntries, l[2])
               \X SeqsOfLen(PropertyEntries, l[3]) :
            l \in {k \in (0 .. MaxEntries) \X (0 .. MaxEntries) \X (0 .. MaxEntries) :
                      k[1] + k[2] + k[3] <= MaxEntries} }

\* Class ids the allocator may have reached when the call is made.
InitialClassIds == {MaxClassId - 1, MaxClassId}

ClassInit(first) ==
    /\ js_class_id_alloc = first
    /\ class_array = {first - 1}
    /\ class_proto = <<>>
    /\ objs = <<>>
    /\ current_exception = "none"
    /\ lastCall = NoCall
    /\ created = <<>>

(***************************************************************************)
(* SpecClass: one CreateClass call, over all descriptors and member lists  *)
(* and every engine call failing in turn.                                  *)
(***************************************************************************)
CreateClassOnce ==
    /\ lastCall.count = 0
    /\ \E class_def \in ClassDefs, slot \in {0, js_class_id_alloc - 1},
          members \in MemberLists :
          \E failAt \in 0 .. FallibleCalls(slot, class_def, 1, members[1],
                                           members[2], members[3]) :
             CreateClassCall(slot, class_def, 1, members[1], members[2],
                             members[3], failAt)

InitClass == TimerInit /\ BridgeInit /\ \E first \in InitialClassIds : ClassInit(first)

NextClass == CreateClassOnce

SpecClass == InitClass /\ [][NextClass]_vars

(***************************************************************************)
(* SpecClassSeq: CreateClass calls in a row on one runtime.                *)
(***************************************************************************)
SeqMethods ==
    {<<>>, <<[name |-> "x", handler_id |-> 11, length |-> 0, is_static |-> 1]>>}

CreateClassAgain ==
    /\ lastCall.count < MaxCalls
    /\ \E class_def \in {ClassDef(""), ClassDef("Point")},
          slot \in {0} \cup {created[i] : i \in DOMAIN created},
          methods \in SeqMethods :
          \E failAt \in 0 .. FallibleCalls(slot, class_def, 1, methods, <<>>, <<>>) :
             CreateClassCall(slot, class_def, 1, methods, <<>>, <<>>, failAt)

InitClassSeq == TimerInit /\ BridgeInit /\ ClassInit(MaxClassId - 2)

NextClassSeq == CreateClassAgain

SpecClassSeq == InitClassSeq /\ [][NextClassSeq]_vars

(***************************************************************************)
(* Engine calls of the instance factory.                                   *)
(***************************************************************************)
\* JS_GetPropertyStr: a new reference to the value of the property, undefined
\* when there is none, an exception when the receiver is undefined or the
\* engine fails.
JS_GetPropertyStr(e, this_obj, prop) ==
    IF Fails(e)
    THEN [e |-> Throw(Called(e), "OutOfMemory"), ret |-> JS_EXCEPTION]
    ELSE IF JS_IsUndefined(this_obj)
    THEN [e |-> Throw(Called(e), "TypeError"), ret |-> JS_EXCEPTION]
    ELSE IF this_obj.tag = "object" /\ prop \in DOMAIN e.objs[this_obj.v].props
    THEN [e |-> JS_DupValue(Called(e), e.objs[this_obj.v].props[prop].value),
          ret |-> e.objs[this_obj.v].props[prop].value]
    ELSE [e |-> Called(e), ret |-> JS_UNDEFINED]

\* JS_NewObjectProtoClass: a new object of the class with one reference,
\* owned by the caller; the object holds its own reference to the prototype
\* (none when proto is not an object).
NewInstanceRecord(proto, class_id) ==
    [NewObjectRecord("instance", "none", "none", 0, 0, "") EXCEPT
        !.proto = IF proto.tag = "object" THEN proto.v ELSE 0,
        !.class_id = class_id]

JS_NewObjectProtoClass(e, proto, class_id) ==
    IF Fails(e)
    THEN [e |-> Throw(Called(e), "OutOfMemory"), ret |-> JS_EXCEPTION]
    ELSE AllocObject(JS_DupValue(e, proto), NewInstanceRecord(proto, class_id))

(***************************************************************************)
(* CreateClassInstance.  instance_properties is the array, of which the    *)
(* first instance_property_count entries are read.  The steps are those of *)
(* the function, each taking the outcome of the one before.                *)
(***************************************************************************)
CreateInstanceReturned_SetsOpaque(e, obj) ==
    [e |-> [e EXCEPT !.objs[obj.v].opaque = 1], ret |-> obj]

CreateInstanceReturned(e, obj) == [e |-> e, ret |-> obj]

InstanceSelects_BindsAll(property) == TRUE

InstanceSelects(property) == property.is_static = 0

RECURSIVE CreateInstancePropertiesFrom(_, _, _, _, _)
RECURSIVE CreateInstancePropertyBound(_, _, _, _, _)
CreateInstancePropertiesFrom(e, obj, instance_properties, instance_property_count, i) ==
    IF i > instance_property_count THEN CreateInstanceReturned(e, obj)
    ELSE IF InstanceSelects(instance_properties[i])
    THEN CreateInstancePropertyBound(
             BindPropertyToObject(Logged(e, obj, "property", i), obj,
                                  instance_properties[i]),
             obj, instance_properties, instance_property_count, i)
    ELSE CreateInstancePropertiesFrom(e, obj, instance_properties,
                                      instance_property_count, i + 1)

CreateInstancePropertyBound(property_result, obj, instance_properties, instance_property_count, i) ==
    IF JS_IsException(property_result.ret)
    THEN [e |-> JS_FreeValue(property_result.e, obj), ret |-> property_result.ret]
    ELSE CreateInstancePropertiesFrom(property_result.e, obj, instance_properties,
                                      instance_property_count, i + 1)

CreateInstanceProtoFreed(e, obj, instance_properties, instance_property_count) ==
    IF JS_IsException(obj) THEN [e |-> e, ret |-> obj]
    ELSE CreateInstancePropertiesFrom(e, obj, instance_properties,
                                      instance_property_count, 1)

CreateInstanceObjectCreated_KeepsProtoOnFailure(o, proto, instance_properties, instance_property_count) ==
    IF JS_IsException(o.ret)
    THEN CreateInstanceProtoFreed(o.e, o.ret, instance_properties,
                                  instance_property_count)
    ELSE CreateInstanceProtoFreed(JS_FreeValue(o.e, proto), o.ret,
                                  instance_properties, instance_property_count)

CreateInstanceObjectCreated(o, proto, instance_properties, instance_property_count) ==
    CreateInstanceProtoFreed(JS_FreeValue(o.e, proto), o.ret,
                             instance_properties, instance_property_count)

CreateInstanceProtoRead(p, class_id, instance_properties, instance_property_count) ==
    IF JS_IsException(p.ret) THEN p
    ELSE CreateInstanceObjectCreated(
             JS_NewObjectProtoClass(p.e, p.ret, class_id), p.ret,
             instance_properties, instance_property_count)

CreateClassInstance(e, constructor, class_id, instance_properties, instance_property_count) ==
    IF class_id >= MaxClassId
    THEN [e |-> Throw(e, "RangeError"), ret |-> JS_EXCEPTION]
    ELSE CreateInstanceProtoRead(
             JS_GetPropertyStr(e, constructor, "prototype"), class_id,
             instance_properties, instance_property_count)

(***************************************************************************)
(* SpecInstance: one CreateClassInstance call on a context in which a      *)
(* class was built, over constructors, class ids, instance property lists  *)
(* and every engine call failing in turn.                                  *)
(***************************************************************************)
\* The context after CreateClass built the class "Point" without members.
ClassBuilt ==
    CreateClass([objs |-> <<>>, alloc |-> 2, classes |-> {1}, protos |-> <<>>,
                 exc |-> "none", n |-> 0, failAt |-> 0, log |-> <<>>],
                0, ClassDef("Point"), 1, <<>>, <<>>, <<>>)

InstanceFallibleCalls(constructor, class_id, instance_properties, instance_property_count) ==
    CreateClassInstance(EngineState(0), constructor, class_id,
                        instance_properties, instance_property_count).e.n

CreateClassInstanceReturned(r, constructor, class_id, instance_properties, instance_property_count, failAt) ==
    /\ objs' = r.e.objs
    /\ current_exception' = r.e.exc
    /\ lastInstance' =
         [count |-> lastInstance.count + 1, constructor |-> constructor,
          class_id |-> class_id, instance_properties |-> instance_properties,
          instance_property_count |-> instance_property_count,
          failAt |-> failAt, ret |-> r.ret, exc |-> r.e.exc, log |-> r.e.log,
          before |-> objs]
    /\ UNCHANGED <<timerVars, js_class_id_alloc, class_array, class_proto,
                   lastCall, created, lastLoad, lastProxy, lastCodec,
                   lastBind>>

CreateClassInstanceCall(constructor, class_id, instance_properties, instance_property_count, failAt) ==
    CreateClassInstanceReturned(
        CreateClassInstance(EngineState(failAt), constructor, class_id,
                            instance_properties, instance_property_count),
        constructor, class_id, instance_properties, instance_property_count,
        failAt)

InstancePropertyEntries ==
    [name : Names, value : {JS_NewInt32(0), JS_NewInt32(1)}, is_static : {0, 1},
     flags : {GetPropertyNone, GetPropertyDefault}]

InstancePropertyLists ==
    UNION {SeqsOfLen(InstancePropertyEntries, l) : l \in 0 .. MaxInstanceProperties}

\* The constructor of the class built, and undefined.
InstanceConstructors == {ClassBuilt.ret, JS_UNDEFINED}

\* The id of the class built, and the first id outside the id space.
InstanceClassIds == {ClassBuilt.class_id, MaxClassId}

CreateClassInstanceOnce ==
    /\ lastInstance.count = 0
    /\ \E constructor \in InstanceConstructors, class_id \in InstanceClassIds,
          instance_properties \in InstancePropertyLists :
          \E instance_property_count \in 0 .. Len(instance_properties) :
             \E failAt \in 0 .. InstanceFallibleCalls(constructor, class_id,
                                     instance_properties, instance_property_count) :
                CreateClassInstanceCall(constructor, class_id, instance_properties,
                                        instance_property_count, failAt)

InitInstance ==
    /\ TimerInit
    /\ BridgeInit
    /\ js_class_id_alloc = ClassBuilt.e.alloc
    /\ class_array = ClassBuilt.e.classes
    /\ class_proto = ClassBuilt.e.protos
    /\ objs = ClassBuilt.e.objs
    /\ current_exception = "none"
    /\ lastCall = NoCall
    /\ created = <<ClassBuilt.class_id>>

NextInstance == CreateClassInstanceOnce

SpecInstance == InitInstance /\ [][NextInstance]_vars

(***************************************************************************)
(* Engine calls of the module loader.  The bytecode buffer buf says what   *)
(* the unit it holds is and does:                                          *)
(*   kind     "corrupt", "script" (a function) or "module"                 *)
(*   imports  whether the imports of a module can be resolved              *)
(*   eval     whether evaluation returns or throws                         *)
(*   promise  state of the promise the evaluation of a module returns      *)
(*   jobs     what running the pending jobs does to that promise           *)
(* The engine state of a load carries buf, and in log the engine calls     *)
(* made, in order, each with whether it succeeded.                         *)
(***************************************************************************)
JS_PROMISE_PENDING == 0
JS_PROMISE_FULFILLED == 1
JS_PROMISE_REJECTED == 2

JS_MKPROMISE(state) == [tag |-> "promise", v |-> state]

\* The value of a call that has not returned: js_std_await is still looping.
StillWaiting == [tag |-> "waiting", v |-> 0]

IsModule(e, val) == val.tag = "object" /\ e.objs[val.v].class = "module"

CallLogged(e, call, ok) == [e EXCEPT !.log = Append(@, [call |-> call, ok |-> ok])]

\* A deserialized module is referenced by the context's module list and by
\* the value returned; a deserialized function by the value returned.
ModuleRecord == [NewObjectRecord("module", "none", "none", 0, 0, "") EXCEPT !.rc = 2]
FunctionRecord == NewObjectRecord("bytecode_function", "none", "none", 0, 0, "")

\* JS_ReadObject with JS_READ_OBJ_BYTECODE.
JS_ReadObject(e, buf) ==
    IF Fails(e)
    THEN [e |-> Throw(CallLogged(Called(e), "JS_ReadObject", FALSE), "OutOfMemory"),
          ret |-> JS_EXCEPTION]
    ELSE IF buf.kind = "corrupt"
    THEN [e |-> Throw(CallLogged(Called(e), "JS_ReadObject", FALSE), "SyntaxError"),
          ret |-> JS_EXCEPTION]
    ELSE AllocObject(CallLogged(e, "JS_ReadObject", TRUE),
                     IF buf.kind = "module" THEN ModuleRecord ELSE FunctionRecord)

\* JS_ResolveModule: 0, or -1 with an exception pending.
JS_ResolveModule(e, obj) ==
    IF Fails(e)
    THEN [e |-> Throw(CallLogged(Called(e), "JS_ResolveModule", FALSE), "OutOfMemory"),
          ret |-> -1]
    ELSE IF e.buf.imports = "missing"
    THEN [e |-> Throw(CallLogged(Called(e), "JS_ResolveModule", FALSE), "ReferenceError"),
          ret |-> -1]
    ELSE [e |-> CallLogged(Called(e), "JS_ResolveModule", TRUE), ret |-> 0]

\* js_module_set_import_meta: 0, or -1 with an exception pending.
js_module_set_import_meta(e, obj) ==
    IF Fails(e)
    THEN [e |-> Throw(CallLogged(Called(e), "js_module_set_import_meta", FALSE),
                      "OutOfMemory"),
          ret |-> -1]
    ELSE [e |-> CallLogged(Called(e), "js_module_set_import_meta", TRUE), ret |-> 0]

\* JS_EvalFunction: takes ownership of fun_obj, whatever the outcome.  A
\* function returns its value; a module returns the promise of its
\* completion.
EvalOutcome(e, fun_obj) ==
    IF Fails(e)
    THEN [e |-> Throw(CallLogged(Called(e), "JS_EvalFunction", FALSE), "OutOfMemory"),
          ret |-> JS_EXCEPTION]
    ELSE IF e.buf.eval = "throws"
    THEN [e |-> Throw(CallLogged(Called(e), "JS_EvalFunction", FALSE), "Error"),
          ret |-> JS_EXCEPTION]
    ELSE [e |-> CallLogged(Called(e), "JS_EvalFunction", TRUE),
          ret |-> IF IsModule(e, fun_obj) THEN JS_MKPROMISE(e.buf.promise)
                  ELSE JS_NewInt32(0)]

FunctionConsumed(r, fun_obj) == [e |-> JS_FreeValue(r.e, fun_obj), ret |-> r.ret]

JS_EvalFunction(e, fun_obj) == FunctionConsumed(EvalOutcome(e, fun_obj), fun_obj)

\* js_std_await: a value that is not a promise is returned as it is; the
\* result of a fulfilled promise is returned, the reason of a rejected one
\* is thrown; while the promise is pending the pending jobs are run, and the
\* call does not return before the promise is settled.
PromiseSettled(e, state) ==
    IF state = JS_PROMISE_FULFILLED
    THEN [e |-> CallLogged(e, "js_std_await", TRUE), ret |-> JS_UNDEFINED]
    ELSE [e |-> Throw(CallLogged(e, "js_std_await", FALSE), "Error"),
          ret |-> JS_EXCEPTION]

js_std_await(e, obj) ==
    IF obj.tag # "promise"
    THEN [e |-> CallLogged(e, "js_std_await", ~JS_IsException(obj)), ret |-> obj]
    ELSE IF obj.v # JS_PROMISE_PENDING THEN PromiseSettled(e, obj.v)
    ELSE IF e.buf.jobs = "fulfil" THEN PromiseSettled(e, JS_PROMISE_FULFILLED)
    ELSE IF e.buf.jobs = "reject" THEN PromiseSettled(e, JS_PROMISE_REJECTED)
    ELSE [e |-> CallLogged(e, "js_std_await", FALSE), ret |-> StillWaiting]

(***************************************************************************)
(* LoadModuleBytecode.  The steps are those of the function, each taking   *)
(* the outcome of the one before.                                          *)
(***************************************************************************)
LoadOnlyRequested_OnlyOne(load_only) == load_only = 1

LoadOnlyRequested(load_only) == load_only # 0

LoadModuleEvaluated_NoWait(val) == val

LoadModuleEvaluated(val) == js_std_await(val.e, val.ret)

LoadModuleMetaSet(m, obj) == LoadModuleEvaluated(JS_EvalFunction(m.e, obj))

LoadModuleResolved_KeepsUnit(r, obj) ==
    IF r.ret < 0 THEN [e |-> r.e, ret |-> JS_EXCEPTION]
    ELSE LoadModuleMetaSet(js_module_set_import_meta(r.e, obj), obj)

LoadModuleResolved(r, obj) ==
    IF r.ret < 0 THEN [e |-> JS_FreeValue(r.e, obj), ret |-> JS_EXCEPTION]
    ELSE LoadModuleMetaSet(js_module_set_import_meta(r.e, obj), obj)

LoadOnlyMetaSet(m, obj) == [e |-> m.e, ret |-> obj]

LoadUnitRead(o, load_only) ==
    IF JS_IsException(o.ret) THEN o
    ELSE IF LoadOnlyRequested(load_only)
    THEN IF IsModule(o.e, o.ret)
         THEN LoadOnlyMetaSet(js_module_set_import_meta(o.e, o.ret), o.ret)
         ELSE o
    ELSE IF IsModule(o.e, o.ret)
    THEN LoadModuleResolved(JS_ResolveModule(o.e, o.ret), o.ret)
    ELSE JS_EvalFunction(o.e, o.ret)

LoadModuleBytecode(e, buf, load_only) == LoadUnitRead(JS_ReadObject(e, buf), load_only)

(***************************************************************************)
(* SpecLoad: one LoadModuleBytecode call, over buffers, load_only values   *)
(* and every engine call failing in turn.                                  *)
(***************************************************************************)
LoadEngineState(failAt, buf) ==
    [objs |-> objs, alloc |-> js_class_id_alloc, classes |-> class_array,
     protos |-> class_proto, exc |-> current_exception, n |-> 0,
     failAt |-> failAt, log |-> <<>>, buf |-> buf]

Buffers ==
    [kind : {"corrupt"}, imports : {"resolvable"}, eval : {"returns"},
     promise : {JS_PROMISE_FULFILLED}, jobs : {"none"}]
    \cup [kind : {"script"}, imports : {"resolvable"}, eval : {"returns", "throws"},
          promise : {JS_PROMISE_FULFILLED}, jobs : {"none"}]
    \cup [kind : {"module"}, imports : {"resolvable", "missing"},
          eval : {"returns", "throws"},
          promise : {JS_PROMISE_PENDING, JS_PROMISE_FULFILLED, JS_PROMISE_REJECTED},
          jobs : {"none", "fulfil", "reject"}]

LoadOnlyValues == {0, 1, -1}

LoadFallibleCalls(buf, load_only) ==
    LoadModuleBytecode(LoadEngineState(0, buf), buf, load_only).e.n

LoadModuleBytecodeReturned(r, buf, load_only, failAt) ==
    /\ objs' = r.e.objs
    /\ current_exception' = r.e.exc
    /\ lastLoad' =
         [count |-> lastLoad.count + 1, buf |-> buf, load_only |-> load_only,
          failAt |-> failAt, ret |-> r.ret, exc |-> r.e.exc, log |-> r.e.log,
          before |-> objs]
    /\ UNCHANGED <<timerVars, js_class_id_alloc, class_array, class_proto,
                   lastCall, created, lastInstance, lastProxy, lastCodec,
                   lastBind>>

LoadModuleBytecodeCall(buf, load_only, failAt) ==
    LoadModuleBytecodeReturned(
        LoadModuleBytecode(LoadEngineState(failAt, buf), buf, load_only),
        buf, load_only, failAt)

LoadModuleBytecodeOnce ==
    /\ lastLoad.count = 0
    /\ \E buf \in Buffers, load_only \in LoadOnlyValues :
          \E failAt \in 0 .. LoadFallibleCalls(buf, load_only) :
             LoadModuleBytecodeCall(buf, load_only, failAt)

InitLoad == TimerInit /\ BridgeInit /\ ClassInit(MaxClassId \div 1024)

NextLoad == LoadModuleBytecodeOnce

SpecLoad == InitLoad /\ [][NextLoad]_vars

(***************************************************************************)
(* The host handlers (Go exports).  calls is the sequence of host calls    *)
(* made so far; a handler is recorded with the arguments it receives and   *)
(* returns the answer the host gives.                                      *)
(***************************************************************************)
HostCalled(calls, handler, args, answer) ==
    [calls |-> Append(calls, [handler |-> handler, args |-> args]), ret |-> answer]

FunctionArgs(ctx, this_val, argc, argv, magic) ==
    [ctx |-> ctx, this_val |-> this_val, argc |-> argc, argv |-> argv,
     magic |-> magic]

GetterArgs(ctx, this_val, magic) ==
    [ctx |-> ctx, this_val |-> this_val, magic |-> magic]

SetterArgs(ctx, this_val, val, magic) ==
    [ctx |-> ctx, this_val |-> this_val, val |-> val, magic |-> magic]

FinalizerArgs(rt, val) == [rt |-> rt, val |-> val]

\* What a call of a void function yields.
NoValue == [tag |-> "void", v |-> 0]

goFunctionProxy(calls, ctx, this_val, argc, argv, magic, answer) ==
    HostCalled(calls, "goFunctionProxy",
               FunctionArgs(ctx, this_val, argc, argv, magic), answer)

goClassConstructorProxy(calls, ctx, new_target, argc, argv, magic, answer) ==
    HostCalled(calls, "goClassConstructorProxy",
               FunctionArgs(ctx, new_target, argc, argv, magic), answer)

goClassMethodProxy(calls, ctx, this_val, argc, argv, magic, answer) ==
    HostCalled(calls, "goClassMethodProxy",
               FunctionArgs(ctx, this_val, argc, argv, magic), answer)

goClassGetterProxy(calls, ctx, this_val, magic, answer) ==
    HostCalled(calls, "goClassGetterProxy", GetterArgs(ctx, this_val, magic), answer)

goClassSetterProxy(calls, ctx, this_val, val, magic, answer) ==
    HostCalled(calls, "goClassSetterProxy",
               SetterArgs(ctx, this_val, val, magic), answer)

goClassFinalizerProxy(calls, rt, val) ==
    HostCalled(calls, "goClassFinalizerProxy", FinalizerArgs(rt, val), NoValue)

(***************************************************************************)
(* The trampolines.                                                        *)
(***************************************************************************)
GoFunctionProxy(calls, ctx, this_val, argc, argv, magic, answer) ==
    goFunctionProxy(calls, ctx, this_val, argc, argv, magic, answer)

GoClassConstructorProxy(calls, ctx, new_target, argc, argv, magic, answer) ==
    goClassConstructorProxy(calls, ctx, new_target, argc, argv, magic, answer)

GoClassMethodProxy_ToFunctionHandler(calls, ctx, this_val, argc, argv, magic, answer) ==
    goFunctionProxy(calls, ctx, this_val, argc, argv, magic, answer)

GoClassMethodProxy(calls, ctx, this_val, argc, argv, magic, answer) ==
    goClassMethodProxy(calls, ctx, this_val, argc, argv, magic, answer)

GoClassGetterProxy(calls, ctx, this_val, magic, answer) ==
    goClassGetterProxy(calls, ctx, this_val, magic, answer)

GoClassSetterProxy(calls, ctx, this_val, val, magic, answer) ==
    goClassSetterProxy(calls, ctx, this_val, val, magic, answer)

GoClassFinalizerProxy(calls, rt, val) ==
    [calls |-> goClassFinalizerProxy(calls, rt, val).calls, ret |-> NoValue]

(***************************************************************************)
(* SpecProxy: one trampoline call, as the engine makes it, over contexts,  *)
(* receivers, argument lists, magic values and host answers.               *)
(***************************************************************************)
Contexts == {1, 2}
Runtimes == {1, 2}
ProxyValues == {JS_UNDEFINED, JS_NewInt32(0), JS_MKOBJ(1)}
ArgLists == UNION {SeqsOfLen(ProxyValues, l) : l \in 0 .. MaxArgs}
Magics == {-1, 0, 1}
HostAnswers == {JS_UNDEFINED, JS_NewInt32(1), JS_EXCEPTION}

ProxyReturned(r, proxy, args, answer) ==
    /\ lastProxy' = [count |-> lastProxy.count + 1, proxy |-> proxy,
                     args |-> args, answer |-> answer, calls |-> r.calls,
                     ret |-> r.ret]
    /\ UNCHANGED <<timerVars, classVars, lastInstance, lastLoad, lastCodec,
                   lastBind>>

GoFunctionProxyCall ==
    /\ lastProxy.count = 0
    /\ \E ctx \in Contexts, this_val \in ProxyValues, argv \in ArgLists,
          magic \in Magics, answer \in HostAnswers :
          ProxyReturned(
              GoFunctionProxy(<<>>, ctx, this_val, Len(argv), argv, magic, answer),
              "GoFunctionProxy",
              FunctionArgs(ctx, this_val, Len(argv), argv, magic), answer)

GoClassConstructorProxyCall ==
    /\ lastProxy.count = 0
    /\ \E ctx \in Contexts, new_target \in ProxyValues, argv \in ArgLists,
          magic \in Magics, answer \in HostAnswers :
          ProxyReturned(
              GoClassConstructorProxy(<<>>, ctx, new_target, Len(argv), argv,
                                      magic, answer),
              "GoClassConstructorProxy",
              FunctionArgs(ctx, new_target, Len(argv), argv, magic), answer)

GoClassMethodProxyCall ==
    /\ lastProxy.count = 0
    /\ \E ctx \in Contexts, this_val \in ProxyValues, argv \in ArgLists,
          magic \in Magics, answer \in HostAnswers :
          ProxyReturned(
              GoClassMethodProxy(<<>>, ctx, this_val, Len(argv), argv, magic, answer),
              "GoClassMethodProxy",
              FunctionArgs(ctx, this_val, Len(argv), argv, magic), answer)

GoClassGetterProxyCall ==
    /\ lastProxy.count = 0
    /\ \E ctx \in Contexts, this_val \in ProxyValues, magic \in Magics,
          answer \in HostAnswers :
          ProxyReturned(GoClassGetterProxy(<<>>, ctx, this_val, magic, answer),
                        "GoClassGetterProxy", GetterArgs(ctx, this_val, magic),
                        answer)

GoClassSetterProxyCall ==
    /\ lastProxy.count = 0
    /\ \E ctx \in Contexts, this_val \in ProxyValues, val \in ProxyValues,
          magic \in Magics, answer \in HostAnswers :
          ProxyReturned(GoClassSetterProxy(<<>>, ctx, this_val, val, magic, answer),
                        "GoClassSetterProxy",
                        SetterArgs(ctx, this_val, val, magic), answer)

GoClassFinalizerProxyCall ==
    /\ lastProxy.count = 0
    /\ \E rt \in Runtimes, val \in ProxyValues :
          ProxyReturned(GoClassFinalizerProxy(<<>>, rt, val),
                        "GoClassFinalizerProxy", FinalizerArgs(rt, val), NoValue)

InitProxy == TimerInit /\ BridgeInit /\ ClassInit(MaxClassId \div 1024)

NextProxy ==
    \/ GoFunctionProxyCall
    \/ GoClassConstructorProxyCall
    \/ GoClassMethodProxyCall
    \/ GoClassGetterProxyCall
    \/ GoClassSetterProxyCall
    \/ GoClassFinalizerProxyCall

SpecProxy == InitProxy /\ [][NextProxy]_vars

(***************************************************************************)
(* The opaque handle codec.  A pointer is the sequence of its 16-bit       *)
(* limbs, least significant first: 2 limbs where pointers have 32 bits, 4  *)
(* where they have 64.  An int32_t is an integer of Int32Min .. Int32Max.  *)
(***************************************************************************)
LimbBase == 2 ^ 16
Int32Max == (2 ^ 15 - 1) * LimbBase + (LimbBase - 1)
Int32Min == (-Int32Max) - 1

\* (intptr_t)id: the two's complement bits of id, sign-extended to the
\* width of a pointer.
SignExtended(id, limbs) ==
    [k \in 1 .. limbs |->
        IF k = 1 THEN id % LimbBase
        ELSE IF k = 2 THEN (id \div LimbBase) % LimbBase
        ELSE IF id < 0 THEN LimbBase - 1 ELSE 0]

IntToOpaque(id, limbs) == SignExtended(id, limbs)

\* (int32_t)(intptr_t)opaque: the low 32 bits of the pointer, read as a
\* two's complement number.
OpaqueToInt_Low16(opaque) ==
    IF opaque[1] >= LimbBase \div 2 THEN opaque[1] - LimbBase ELSE opaque[1]

OpaqueToInt(opaque) ==
    IF opaque[2] >= LimbBase \div 2
    THEN (opaque[2] - LimbBase) * LimbBase + opaque[1]
    ELSE opaque[2] * LimbBase + opaque[1]

(***************************************************************************)
(* SpecCodec: two handle ids are converted to pointers, and the first      *)
(* pointer back.                                                           *)
(***************************************************************************)
PointerLimbs == {2, 4}

HandleIds ==
    {Int32Min + k : k \in 0 .. IdSpread}
    \cup {Int32Max - k : k \in 0 .. IdSpread}
    \cup {a + k : a \in {-LimbBase, -(LimbBase \div 2), 0, LimbBase \div 2, LimbBase},
                  k \in (-IdSpread) .. IdSpread}

Converted(id, other, limbs) ==
    /\ lastCodec' = [count |-> lastCodec.count + 1, limbs |-> limbs, id |-> id,
                     opaque |-> IntToOpaque(id, limbs),
                     back |-> OpaqueToInt(IntToOpaque(id, limbs)),
                     other |-> other, otherOpaque |-> IntToOpaque(other, limbs)]
    /\ UNCHANGED <<timerVars, classVars, lastInstance, lastLoad, lastProxy,
                   lastBind>>

Convert ==
    /\ lastCodec.count = 0
    /\ \E id \in HandleIds, other \in HandleIds, limbs \in PointerLimbs :
          Converted(id, other, limbs)

InitCodec == TimerInit /\ BridgeInit /\ ClassInit(MaxClassId \div 1024)

NextCodec == Convert

SpecCodec == InitCodec /\ [][NextCodec]_vars

(***************************************************************************)
(* SpecBind: one direct call of CreateCFunction or of a member bind on an  *)
(* object of the host, with every function type, and every engine call     *)
(* failing in turn.                                                        *)
(***************************************************************************)
\* The host's objects before the call: the target of the bind and an object
\* the host owns and hands in as a property value.
BindTarget == JS_MKOBJ(1)
HostValue == JS_MKOBJ(2)

HostObjectsCreated ==
    JS_NewObject(JS_NewObject([objs |-> <<>>, alloc |-> 1, classes |-> {},
                               protos |-> <<>>, exc |-> "none", n |-> 0,
                               failAt |-> 0, log |-> <<>>]).e).e

\* The target carries no property, or a non-configurable "x".
HostObjects(sealed) ==
    IF sealed
    THEN BindPropertyToObject(HostObjectsCreated, BindTarget,
                              [name |-> "x", value |-> JS_NewInt32(0),
                               flags |-> GetPropertyNone, is_static |-> 0]).e.objs
    ELSE HostObjectsCreated.objs

BindReturned(r, op, entry, failAt) ==
    /\ objs' = r.e.objs
    /\ current_exception' = r.e.exc
    /\ lastBind' = [count |-> lastBind.count + 1, op |-> op, entry |-> entry,
                    failAt |-> failAt, ret |-> r.ret, exc |-> r.e.exc,
                    before |-> objs]
    /\ UNCHANGED <<timerVars, js_class_id_alloc, class_array, class_proto,
                   lastCall, created, lastInstance, lastLoad, lastProxy,
                   lastCodec>>

FuncTypes ==
    {GetCFuncGeneric, GetCFuncGenericMagic, GetCFuncConstructor,
     GetCFuncConstructorMagic, GetCFuncGetterMagic, GetCFuncSetterMagic}

FuncHandlerIds == {-1, 0, 7, Int32Max}

FuncEntries ==
    [name : Names, length : 0 .. MaxArgs, func_type : FuncTypes,
     handler_id : FuncHandlerIds]

BindPropertyEntries ==
    [name : Names, value : {JS_NewInt32(0), HostValue}, is_static : {0},
     flags : {GetPropertyNone, GetPropertyDefault}]

CreateCFunctionCall ==
    /\ lastBind.count = 0
    /\ \E f \in FuncEntries :
          \E failAt \in 0 .. CreateCFunction(EngineState(0), f.name, f.length,
                                             f.func_type, f.handler_id).e.n :
             BindReturned(CreateCFunction(EngineState(failAt), f.name, f.length,
                                          f.func_type, f.handler_id),
                          "CreateCFunction", f, failAt)

BindMethodToObjectCall ==
    /\ lastBind.count = 0
    /\ \E method \in MethodEntries :
          \E failAt \in 0 .. BindMethodToObject(EngineState(0), BindTarget, method).e.n :
             BindReturned(BindMethodToObject(EngineState(failAt), BindTarget, method),
                          "BindMethodToObject", method, failAt)

BindAccessorToObjectCall ==
    /\ lastBind.count = 0
    /\ \E accessor \in AccessorEntries :
          \E failAt \in 0 .. BindAccessorToObject(EngineState(0), BindTarget, accessor).e.n :
             BindReturned(BindAccessorToObject(EngineState(failAt), BindTarget, accessor),
                          "BindAccessorToObject", accessor, failAt)

BindPropertyToObjectCall ==
    /\ lastBind.count = 0
    /\ \E property \in BindPropertyEntries :
          \E failAt \in 0 .. BindPropertyToObject(EngineState(0), BindTarget, property).e.n :
             BindReturned(BindPropertyToObject(EngineState(failAt), BindTarget, property),
                          "BindPropertyToObject", property, failAt)

InitBind ==
    /\ TimerInit
    /\ BridgeInit
    /\ js_class_id_alloc = 1
    /\ class_array = {}
    /\ class_proto = <<>>
    /\ objs \in {HostObjects(FALSE), HostObjects(TRUE)}
    /\ current_exception = "none"
    /\ lastCall = NoCall
    /\ created = <<>>

NextBind ==
    \/ CreateCFunctionCall
    \/ BindMethodToObjectCall
    \/ BindAccessorToObjectCall
    \/ BindPropertyToObjectCall

SpecBind == InitBind /\ [][NextBind]_vars

(***************************************************************************)
(* Class builder: properties.                                              *)
(***************************************************************************)
Called1 == lastCall.count > 0
Failed == Called1 /\ JS_IsException(lastCall.ret)
Succeeded == Called1 /\ ~JS_IsException(lastCall.ret)
ValidDescriptor ==
    /\ ~lastCall.class_def.isNull
    /\ lastCall.class_def.class_name # NULL
    /\ lastCall.class_def.class_name # ""

\* Objects allocated by the latest call.
NewObjs == (lastCall.before.nobjs + 1) .. Len(objs)

RegistryUntouched ==
    /\ class_array = lastCall.before.classes
    /\ class_proto = lastCall.before.protos

\* C7: whenever CreateClass returns an exception, every object it allocated
\* has been released and the class registry and the class prototype table
\* are what they were before the call.
C7_FailureReleasesEverything ==
    Failed => /\ \A i \in NewObjs : objs[i].rc <= 0
              /\ RegistryUntouched

\* C8: with a valid descriptor, a successful CreateClass returns a class id
\* below 2^16 (and it succeeds when the id is below 2^16 and unregistered
\* and no engine call fails); an id of 2^16 or more gives a RangeError with
\* no class registered and no prototype or constructor created.
C8_IdBelowLimitOrRangeError ==
    /\ Succeeded => lastCall.class_id < MaxClassId
    /\ (Called1 /\ ValidDescriptor /\ lastCall.class_id < MaxClassId
          /\ lastCall.class_id \notin lastCall.before.classes
          /\ lastCall.failAt = 0) => Succeeded
    /\ (Called1 /\ ValidDescriptor /\ lastCall.class_id >= MaxClassId)
          => /\ Failed
             /\ lastCall.exc = "RangeError"
             /\ RegistryUntouched
             /\ NewObjs = {}
             /\ lastCall.proto = 0 /\ lastCall.constructor = 0

C8_Witness ==
    /\ Failed /\ ValidDescriptor
    /\ lastCall.slot = 0
    /\ lastCall.class_id = MaxClassId
    /\ lastCall.exc = "RangeError"
    /\ Len(lastCall.methods) > 0

\* C9: the class ids returned by successful CreateClass calls on a runtime
\* are pairwise distinct and all below 2^16.
C9_ClassIdsUniqueAndInRange ==
    /\ \A i, j \in DOMAIN created : i # j => created[i] # created[j]
    /\ \A i \in DOMAIN created : created[i] < MaxClassId

C9_Witness ==
    /\ Len(created) >= 2
    /\ Failed /\ lastCall.exc = "RangeError"
    /\ lastCall.class_id >= MaxClassId

\* C10: after a successful CreateClass every entry with is_static = 0 was
\* bound to the prototype and not to the constructor, and its name is
\* defined on the prototype; every entry with is_static = 1 was bound to the
\* constructor and not to the prototype, and its name is defined on the
\* constructor.  A name is defined on the other object only when an entry
\* with the other flag carries it.
EntriesOf(kind) ==
    IF kind = "method" THEN lastCall.methods
    ELSE IF kind = "accessor" THEN lastCall.accessors
    ELSE lastCall.properties

EntryKinds == {"method", "accessor", "property"}

BoundOn(obj, kind, i) ==
    \E j \in DOMAIN lastCall.log :
       lastCall.log[j] = [obj |-> obj, kind |-> kind, idx |-> i]

DefinedOn(obj, name) == name \in DOMAIN objs[obj].props

NameUsedWithFlag(name, is_static) ==
    \E kind \in EntryKinds : \E i \in DOMAIN EntriesOf(kind) :
       EntriesOf(kind)[i].name = name /\ EntriesOf(kind)[i].is_static = is_static

PlacedOn(own, other, kind, i, otherFlag) ==
    /\ BoundOn(own, kind, i)
    /\ ~BoundOn(other, kind, i)
    /\ DefinedOn(own, EntriesOf(kind)[i].name)
    /\ DefinedOn(other, EntriesOf(kind)[i].name)
          => NameUsedWithFlag(EntriesOf(kind)[i].name, otherFlag)

C10_MembersPartitionedByStatic ==
    Succeeded =>
       \A kind \in EntryKinds : \A i \in DOMAIN EntriesOf(kind) :
          /\ EntriesOf(kind)[i].is_static = 0
                => PlacedOn(lastCall.proto, lastCall.constructor, kind, i, 1)
          /\ EntriesOf(kind)[i].is_static = 1
                => PlacedOn(lastCall.constructor, lastCall.proto, kind, i, 0)

C10_Witness ==
    /\ Succeeded
    /\ \E k1, k2 \in EntryKinds :
          \E i \in DOMAIN EntriesOf(k1), j \in DOMAIN EntriesOf(k2) :
             /\ EntriesOf(k1)[i].is_static = 0
             /\ EntriesOf(k2)[j].is_static = 1
             /\ DefinedOn(lastCall.proto, EntriesOf(k1)[i].name)
             /\ ~DefinedOn(lastCall.constructor, EntriesOf(k1)[i].name)
             /\ DefinedOn(lastCall.constructor, EntriesOf(k2)[j].name)
             /\ ~DefinedOn(lastCall.proto, EntriesOf(k2)[j].name)

\* C11: when two or more entries bound to the same object share a name, the
\* binding succeeds and the object's one property of that name is the one
\* the entry bound last defines (its kind, value or functions, and flags).
LogName(j) == EntriesOf(lastCall.log[j].kind)[lastCall.log[j].idx].name

BindsOf(obj, name) ==
    {j \in DOMAIN lastCall.log : lastCall.log[j].obj = obj /\ LogName(j) = name}

LastOf(S) == CHOOSE j \in S : \A k \in S : k <= j

IsFunctionWith(val, proxy, magic) ==
    /\ val.tag = "object"
    /\ objs[val.v].class = "cfunction"
    /\ objs[val.v].proxy = proxy
    /\ objs[val.v].magic = magic

AccessorSideIs(val, id, proxy) ==
    IF id = 0 THEN JS_IsUndefined(val) ELSE IsFunctionWith(val, proxy, id)

DefinedByEntry(p, kind, entry) ==
    IF kind = "method"
    THEN /\ p.kind = "data" /\ p.flags = GetPropertyWritableConfigurable
         /\ IsFunctionWith(p.value, "GoClassMethodProxy", entry.handler_id)
    ELSE IF kind = "accessor"
    THEN /\ p.kind = "getset" /\ p.flags = GetPropertyConfigurable
         /\ AccessorSideIs(p.getter, entry.getter_id, "GoClassGetterProxy")
         /\ AccessorSideIs(p.setter, entry.setter_id, "GoClassSetterProxy")
    ELSE p.kind = "data" /\ p.flags = entry.flags /\ p.value = entry.value

LastBoundWins(obj, name) ==
    Cardinality(BindsOf(obj, name)) >= 2 =>
       /\ DefinedOn(obj, name)
       /\ DefinedByEntry(objs[obj].props[name],
                         lastCall.log[LastOf(BindsOf(obj, name))].kind,
                         EntriesOf(lastCall.log[LastOf(BindsOf(obj, name))].kind)
                            [lastCall.log[LastOf(BindsOf(obj, name))].idx])

C11_LaterEntryOverwrites ==
    Succeeded =>
       \A name \in Names :
          /\ LastBoundWins(lastCall.proto, name)
          /\ LastBoundWins(lastCall.constructor, name)

\* C20: CreateClass with a null descriptor, a null class name or an empty
\* class name returns an InternalError and leaves the caller's class id
\* slot, the id allocator, the class registry and the object heap as they
\* were.
C20_InvalidDescriptorTouchesNothing ==
    (Called1 /\ ~ValidDescriptor) =>
       /\ Failed
       /\ lastCall.exc = "InternalError"
       /\ lastCall.class_id = lastCall.slot
       /\ js_class_id_alloc = lastCall.before.alloc
       /\ RegistryUntouched
       /\ NewObjs = {}
       /\ lastCall.proto = 0 /\ lastCall.constructor = 0

C20_Witness ==
    /\ Failed /\ ~ValidDescriptor
    /\ lastCall.class_def.class_name = ""
    /\ lastCall.slot = 0
    /\ Len(lastCall.methods) > 0
    /\ js_class_id_alloc < MaxClassId

(***************************************************************************)
(* Instance factory: properties.                                           *)
(***************************************************************************)
InstanceCalled == lastInstance.count > 0
InstanceFailed == InstanceCalled /\ JS_IsException(lastInstance.ret)
InstanceReturnedObject == InstanceCalled /\ lastInstance.ret.tag = "object"

\* The entries of instance_properties the call reads.
InstanceEntries == 1 .. lastInstance.instance_property_count
InstanceEntry(i) == lastInstance.instance_properties[i]

\* Objects allocated by the call.
NewInstanceObjs == (Len(lastInstance.before) + 1) .. Len(objs)

EntryDefinedOn(obj, entry) ==
    /\ entry.name \in DOMAIN objs[obj].props
    /\ objs[obj].props[entry.name] = DataProperty(entry.value, entry.flags)

\* Entries with is_static = 0 that carry the name.
InstanceNamed(name) ==
    {i \in InstanceEntries :
        InstanceEntry(i).is_static = 0 /\ InstanceEntry(i).name = name}

InstanceBound(i) ==
    \E j \in DOMAIN lastInstance.log :
       lastInstance.log[j].idx = i /\ lastInstance.log[j].obj = lastInstance.ret.v

LinksTo(i) ==
    Cardinality({j \in NewInstanceObjs : objs[j].rc > 0 /\ objs[j].proto = i})

C13_InstanceFailureReleases ==
    InstanceCalled =>
       /\ (\/ lastInstance.class_id >= MaxClassId
           \/ JS_IsUndefined(lastInstance.constructor)
           \/ lastInstance.failAt # 0) => InstanceFailed
       /\ InstanceFailed => \A j \in NewInstanceObjs : objs[j].rc = 0
       /\ InstanceReturnedObject => objs[lastInstance.ret.v].rc = 1
       /\ \A i \in DOMAIN lastInstance.before :
             objs[i].rc = lastInstance.before[i].rc + LinksTo(i)

C13_Witness ==
    /\ InstanceFailed
    /\ NewInstanceObjs # {}
    /\ Len(lastInstance.log) = 2
    /\ lastInstance.exc = "InternalError"

\* C14: CreateClassInstance leaves the opaque slot of every object alone:
\* the slot of the object it creates is still empty when it returns.
C14_OpaqueSlotUntouched ==
    InstanceCalled =>
       \A i \in DOMAIN objs :
          objs[i].opaque = IF i \in DOMAIN lastInstance.before
                           THEN lastInstance.before[i].opaque ELSE 0

C14_Witness ==
    /\ InstanceReturnedObject
    /\ objs[lastInstance.ret.v].class_id = ClassBuilt.class_id
    /\ objs[lastInstance.ret.v].proto # 0
    /\ DOMAIN objs[lastInstance.ret.v].props = Names

(***************************************************************************)
(* Module loader: properties.                                              *)
(***************************************************************************)
LoadCalled == lastLoad.count > 0
LoadReturned == LoadCalled /\ lastLoad.ret # StillWaiting
LoadFailed == LoadCalled /\ JS_IsException(lastLoad.ret)
LoadOnly == LoadCalled /\ lastLoad.load_only # 0
LoadAndRun == LoadCalled /\ lastLoad.load_only = 0

\* The engine calls made, in order.
LoadCalls == [i \in DOMAIN lastLoad.log |-> lastLoad.log[i].call]

CallFailed(call) ==
    \E i \in DOMAIN lastLoad.log :
       lastLoad.log[i].call = call /\ ~lastLoad.log[i].ok

\* The deserialized unit, and how often the references it had when it was
\* deserialized have been released.
UnitProduced == Len(objs) > Len(lastLoad.before)
Unit == Len(lastLoad.before) + 1
UnitIsModule == lastLoad.buf.kind = "module"
UnitReleases ==
    (IF UnitIsModule THEN ModuleRecord.rc ELSE FunctionRecord.rc) - objs[Unit].rc

\* C15: with load_only true LoadModuleBytecode makes no engine call but the
\* deserialization and, for a module, the attachment of the import
\* metadata; it returns the deserialized unit itself, unreleased.
C15_LoadOnlyRunsNothing ==
    LoadOnly =>
       /\ LoadReturned
       /\ LoadCalls = IF UnitProduced /\ UnitIsModule
                      THEN <<"JS_ReadObject", "js_module_set_import_meta">>
                      ELSE <<"JS_ReadObject">>
       /\ IF UnitProduced
          THEN lastLoad.ret = JS_MKOBJ(Unit) /\ UnitReleases = 0
          ELSE LoadFailed

C15_Witness ==
    /\ LoadOnly
    /\ lastLoad.load_only = -1
    /\ UnitProduced /\ UnitIsModule
    /\ lastLoad.buf.eval = "throws"
    /\ lastLoad.ret = JS_MKOBJ(Unit)

\* C16: with load_only false a deserialized module is resolved, given its
\* import metadata, evaluated and awaited, in this order (a failed
\* resolution ends the call), and the call returns only a settled outcome:
\* it has not returned while the promise is pending; a deserialized script
\* is evaluated and nothing else.
ModuleRunCalls ==
    <<"JS_ReadObject", "JS_ResolveModule", "js_module_set_import_meta",
      "JS_EvalFunction", "js_std_await">>

C16_ModuleRunInOrder ==
    (LoadAndRun /\ UnitProduced) =>
       IF UnitIsModule
       THEN /\ LoadCalls = IF CallFailed("JS_ResolveModule")
                           THEN SubSeq(ModuleRunCalls, 1, 2) ELSE ModuleRunCalls
            /\ lastLoad.ret.tag # "promise"
            /\ LoadReturned <=>
                  ~(/\ LoadCalls = ModuleRunCalls
                    /\ ~CallFailed("JS_EvalFunction")
                    /\ lastLoad.buf.promise = JS_PROMISE_PENDING
                    /\ lastLoad.buf.jobs = "none")
       ELSE /\ LoadCalls = <<"JS_ReadObject", "JS_EvalFunction">>
            /\ LoadReturned

C16_Witness ==
    /\ LoadAndRun /\ UnitProduced /\ UnitIsModule
    /\ lastLoad.buf.promise = JS_PROMISE_PENDING
    /\ lastLoad.buf.jobs = "fulfil"
    /\ LoadCalls = ModuleRunCalls
    /\ lastLoad.ret = JS_UNDEFINED

\* C17: when the deserialization, the resolution or the evaluation fails,
\* LoadModuleBytecode returns an exception; and whenever it returns an
\* exception the deserialized unit, if there is one, was released exactly
\* once.
C17_LoadFailureReleasesUnit ==
    LoadCalled =>
       /\ (\/ CallFailed("JS_ReadObject")
           \/ CallFailed("JS_ResolveModule")
           \/ CallFailed("JS_EvalFunction")) => LoadFailed
       /\ (LoadFailed /\ UnitProduced) => UnitReleases = 1

C17_Witness ==
    /\ LoadFailed /\ UnitProduced
    /\ CallFailed("JS_ResolveModule")
    /\ lastLoad.failAt = 0
    /\ UnitReleases = 1

(***************************************************************************)
(* Trampolines: properties.                                                *)
(***************************************************************************)
\* The host handler of the kind of each trampoline.
HandlerOf(proxy) ==
    CASE proxy = "GoFunctionProxy" -> "goFunctionProxy"
      [] proxy = "GoClassConstructorProxy" -> "goClassConstructorProxy"
      [] proxy = "GoClassMethodProxy" -> "goClassMethodProxy"
      [] proxy = "GoClassGetterProxy" -> "goClassGetterProxy"
      [] proxy = "GoClassSetterProxy" -> "goClassSetterProxy"
      [] proxy = "GoClassFinalizerProxy" -> "goClassFinalizerProxy"

\* C18: a trampoline calls the host handler of its own kind exactly once,
\* with the arguments it received, unmodified, and returns the handle the
\* handler returned; the finalizer trampoline forwards the runtime and the
\* value and returns nothing.
C18_TrampolinesForwardVerbatim ==
    lastProxy.count > 0 =>
       /\ Len(lastProxy.calls) = 1
       /\ lastProxy.calls[1].handler = HandlerOf(lastProxy.proxy)
       /\ lastProxy.calls[1].args = lastProxy.args
       /\ lastProxy.ret = IF lastProxy.proxy = "GoClassFinalizerProxy"
                          THEN NoValue ELSE lastProxy.answer

C18_Witness ==
    /\ lastProxy.proxy = "GoClassMethodProxy"
    /\ lastProxy.args.argc = 2
    /\ lastProxy.args.magic = -1
    /\ lastProxy.calls[1].args.argv = <<JS_MKOBJ(1), JS_NewInt32(0)>>
    /\ JS_IsException(lastProxy.ret)

(***************************************************************************)
(* Opaque handle codec: properties.                                        *)
(***************************************************************************)
\* C19: for every int32_t id, OpaqueToInt(IntToOpaque(id)) = id, and the
\* pointers of two distinct ids are distinct.
C19_CodecRoundTrip ==
    lastCodec.count > 0 =>
       /\ lastCodec.id \in Int32Min .. Int32Max
       /\ lastCodec.back = lastCodec.id
       /\ lastCodec.id # lastCodec.other =>
             lastCodec.opaque # lastCodec.otherOpaque

C19_Witness ==
    /\ lastCodec.count > 0
    /\ lastCodec.id = Int32Min
    /\ lastCodec.other = Int32Max
    /\ lastCodec.opaque = <<0, LimbBase \div 2, LimbBase - 1, LimbBase - 1>>
    /\ lastCodec.back = Int32Min

\* C21: binding an accessor entry creates a getter function exactly when
\* getter_id # 0 and a setter function exactly when setter_id # 0; the
\* property defined has undefined on an absent side; and no getter or
\* setter function has the handler id 0.
CreatedWith(proxy) == {i \in NewObjs : objs[i].proxy = proxy}

AccessorsBoundWith(side) ==
    {j \in DOMAIN lastCall.log :
        /\ lastCall.log[j].kind = "accessor"
        /\ lastCall.accessors[lastCall.log[j].idx][side] # 0}

C21_AccessorSidesByHandlerId ==
    Called1 =>
       /\ \A i \in CreatedWith("GoClassGetterProxy") \cup CreatedWith("GoClassSetterProxy") :
             objs[i].magic # 0
       /\ Succeeded =>
             /\ Cardinality(CreatedWith("GoClassGetterProxy"))
                   = Cardinality(AccessorsBoundWith("getter_id"))
             /\ Cardinality(CreatedWith("GoClassSetterProxy"))
                   = Cardinality(AccessorsBoundWith("setter_id"))
             /\ \A j \in DOMAIN lastCall.log :
                   (/\ lastCall.log[j].kind = "accessor"
                    /\ BindsOf(lastCall.log[j].obj, LogName(j)) = {j})
                   => /\ DefinedOn(lastCall.log[j].obj, LogName(j))
                      /\ DefinedByEntry(objs[lastCall.log[j].obj].props[LogName(j)],
                                        "accessor",
                                        lastCall.accessors[lastCall.log[j].idx])

C21_Witness ==
    /\ Succeeded
    /\ Len(lastCall.accessors) = 2
    /\ lastCall.accessors[1] = [name |-> "x", getter_id |-> 21, setter_id |-> 0,
                                is_static |-> 0]
    /\ lastCall.accessors[2] = [name |-> "y", getter_id |-> 0, setter_id |-> 22,
                                is_static |-> 0]
    /\ JS_IsUndefined(objs[lastCall.proto].props["x"].setter)
    /\ JS_IsUndefined(objs[lastCall.proto].props["y"].getter)
    /\ IsFunctionWith(objs[lastCall.proto].props["x"].getter, "GoClassGetterProxy", 21)

\* C22: whenever timeoutHandler is the registered callback its opaque is a
\* TimeoutStruct that has not been freed, and every poll through
\* timeoutHandler read a struct that was not freed before the poll.
C22_InstalledTokenNotFreed ==
    /\ interrupt_handler = "timeoutHandler" =>
          tsHeap[interrupt_opaque].frees = 0
    /\ lastPoll.handler = "timeoutHandler" => lastPoll.live

\* C23: after a SetInterruptHandler or ClearInterruptHandler call every
\* TimeoutStruct that is allocated and not freed is the opaque of the
\* registered callback.
C23_NoTokenOrphanedByHandlerChange ==
    lastInstalled \in {"interruptHandler", "NULL"} =>
       \A t \in LiveTokens :
          interrupt_handler = "timeoutHandler" /\ interrupt_opaque = t

\* C24: the binds of a CreateClass call are, in order, those of the
\* prototype pass and then those of the constructor pass, each pass being
\* the matching methods in list order, then the matching accessors, then
\* the matching properties; a call that fails has stopped within this
\* sequence; the prototype pass is over before the constructor is created,
\* and the constructor pass starts after the constructor was linked to the
\* prototype and the prototype registered for the class.
Matching(kind, is_static) ==
    SelectSeq([i \in 1 .. Len(EntriesOf(kind)) |-> i],
              LAMBDA i : EntriesOf(kind)[i].is_static = is_static)

BindsOfKind(obj, kind, is_static) ==
    [k \in 1 .. Len(Matching(kind, is_static)) |->
        [obj |-> obj, kind |-> kind, idx |-> Matching(kind, is_static)[k]]]

PassOn(obj, is_static) ==
    BindsOfKind(obj, "method", is_static)
       \o BindsOfKind(obj, "accessor", is_static)
       \o BindsOfKind(obj, "property", is_static)

ExpectedBinds ==
    PassOn(lastCall.proto, 0)
       \o (IF lastCall.constructor # 0 THEN PassOn(lastCall.constructor, 1)
           ELSE <<>>)

IsPrefix(s, t) == Len(s) <= Len(t) /\ s = SubSeq(t, 1, Len(s))

\* Functions the binds of the log on obj create.
FunctionSides(obj) ==
    {<<j, side>> \in (DOMAIN lastCall.log) \X {"handler_id", "getter_id", "setter_id"} :
        /\ lastCall.log[j].obj = obj
        /\ \/ lastCall.log[j].kind = "method" /\ side = "handler_id"
           \/ /\ lastCall.log[j].kind = "accessor"
              /\ side \in {"getter_id", "setter_id"}
              /\ lastCall.accessors[lastCall.log[j].idx][side] # 0}

BindCalled == lastBind.count > 0
BoundNew == (Len(lastBind.before) + 1) .. Len(objs)

\* The trampoline of each supported function type.
TrampolineOf ==
    [t \in {GetCFuncConstructorMagic, GetCFuncGenericMagic, GetCFuncGetterMagic, GetCFuncSetterMagic} |->
        IF t = GetCFuncConstructorMagic THEN "GoClassConstructorProxy"
        ELSE IF t = GetCFuncGenericMagic THEN "GoClassMethodProxy"
        ELSE IF t = GetCFuncGetterMagic THEN "GoClassGetterProxy"
        ELSE "GoClassSetterProxy"]

\* C25: every function created through CreateCFunction is bound to the
\* trampoline that matches its function type (constructor_magic: constructor
\* proxy, generic_magic: method proxy, getter_magic: getter proxy,
\* setter_magic: setter proxy) and carries the handler id it was given,
\* unchanged, as its magic; a call with any other function type returns an
\* exception with a TypeError pending and creates no function.
C25_TrampolineMatchesType ==
    /\ \A i \in DOMAIN objs :
          objs[i].class = "cfunction" =>
             /\ objs[i].cproto \in DOMAIN TrampolineOf
             /\ objs[i].proxy = TrampolineOf[objs[i].cproto]
    /\ (BindCalled /\ lastBind.op = "CreateCFunction") =>
          IF lastBind.entry.func_type \in DOMAIN TrampolineOf
          THEN \/ /\ JS_IsException(lastBind.ret)
                  /\ lastBind.failAt = 1
                  /\ objs = lastBind.before
               \/ /\ lastBind.ret = JS_MKOBJ(Len(lastBind.before) + 1)
                  /\ Len(objs) = Len(lastBind.before) + 1
                  /\ objs[lastBind.ret.v].class = "cfunction"
                  /\ objs[lastBind.ret.v].proxy = TrampolineOf[lastBind.entry.func_type]
                  /\ objs[lastBind.ret.v].cproto = lastBind.entry.func_type
                  /\ objs[lastBind.ret.v].magic = lastBind.entry.handler_id
                  /\ objs[lastBind.ret.v].length = lastBind.entry.length
                  /\ objs[lastBind.ret.v].name = lastBind.entry.name
                  /\ objs[lastBind.ret.v].rc = 1
          ELSE /\ JS_IsException(lastBind.ret)
               /\ lastBind.exc = "TypeError"
               /\ objs = lastBind.before
    /\ (BindCalled /\ lastBind.op = "BindMethodToObject") =>
          \A i \in BoundNew : /\ objs[i].proxy = "GoClassMethodProxy"
                              /\ objs[i].magic = lastBind.entry.handler_id
    /\ (BindCalled /\ lastBind.op = "BindAccessorToObject") =>
          \A i \in BoundNew :
             \/ /\ objs[i].proxy = "GoClassGetterProxy"
                /\ objs[i].magic = lastBind.entry.getter_id
             \/ /\ objs[i].proxy = "GoClassSetterProxy"
                /\ objs[i].magic = lastBind.entry.setter_id

C25_Witness ==
    /\ BindCalled
    /\ lastBind.op = "CreateCFunction"
    /\ lastBind.entry.func_type = GetCFuncSetterMagic
    /\ lastBind.entry.handler_id = Int32Max
    /\ ~JS_IsException(lastBind.ret)
    /\ objs[lastBind.ret.v].proxy = "GoClassSetterProxy"
    /\ objs[lastBind.ret.v].magic = Int32Max

\* C26: when BindMethodToObject, BindAccessorToObject or BindPropertyToObject
\* fails, every function the bind created is released exactly once (its
\* reference count is 0: neither still referenced nor released twice) and
\* every object the caller owned before the call, the borrowed property
\* value included, keeps the reference count it had before the call.
C26_FailedBindReleasesOnce ==
    (/\ BindCalled
     /\ lastBind.op \in {"BindMethodToObject", "BindAccessorToObject", "BindPropertyToObject"}
     /\ JS_IsException(lastBind.ret)) =>
       /\ \A i \in BoundNew : objs[i].rc = 0
       /\ \A i \in DOMAIN lastBind.before : objs[i].rc = lastBind.before[i].rc

\* C27: every entry passed to a successful CreateClass is bound to exactly
\* one of the prototype and the constructor, whatever integer its is_static
\* holds: to the prototype when it is zero, to the constructor when it is
\* not; no entry is left unbound.
C27_EveryEntryBoundOnce ==
    Succeeded =>
       \A kind \in EntryKinds : \A i \in DOMAIN EntriesOf(kind) :
          IF EntriesOf(kind)[i].is_static = 0
          THEN BoundOn(lastCall.proto, kind, i) /\ ~BoundOn(lastCall.constructor, kind, i)
          ELSE BoundOn(lastCall.constructor, kind, i) /\ ~BoundOn(lastCall.proto, kind, i)

Init == TimerInit /\ BridgeInit /\ ClassInit(MaxClassId \div 1024)

Next == TimerNext

Spec == Init /\ [][Next]_vars

====
